---- MODULE Spec2Model ----
(***************************************************************************)
(* State-machine model of the urban.io simulation kernel                   *)
(* (SimulationEngine and the zoning, traffic, transit, economy and         *)
(* politics systems it sequences).                                         *)
(*                                                                         *)
(* Number representation.  The source computes in IEEE doubles; the model  *)
(* computes in fixed point on integers, rounding every division toward     *)
(* minus infinity:                                                         *)
(*   - ratios (metrics in 0..1, tax rate, subsidy, multipliers, approval)  *)
(*     are held in thousandths: 1000 stands for 1.0;                       *)
(*   - commute times are held in thousandths of a minute;                  *)
(*   - zone percentages are held in tenths of a percent: 1000 is 100%;     *)
(*   - populations, rents, money, road loads and capacities are integers.  *)
(***************************************************************************)
EXTENDS Integers, Sequences, FiniteSets, TLC

VARIABLES
  districts,        \* state.city.districts (array of District)
  roadNetwork,      \* state.city.roadNetwork: [capacities, loads] keyed by road key
  transitLines,     \* state.city.transitLines (array of TransitLine)
  budget,           \* state.city.budget
  representatives,  \* state.city.representatives (array of Representative)
  scenarioGoals,    \* state.city.scenarioGoals
  electionInterval, \* state.city.electionInterval
  turn,             \* state.turn
  mode,             \* state.mode
  metrics,          \* state.metrics (CityMetrics)
  activeEffects,    \* state.activeEffects
  policyHistory,    \* state.policyHistory
  electionLog,      \* state.electionLog
  lastVoteResult,   \* state.lastVoteResult
  gameOver,         \* state.gameOver
  gameOverReason,   \* state.gameOverReason
  ret               \* the value returned by the last call made on the engine

vars == <<districts, roadNetwork, transitLines, budget, representatives,
          scenarioGoals, electionInterval, turn, mode, metrics, activeEffects,
          policyHistory, electionLog, lastVoteResult, gameOver, gameOverReason,
          ret>>

\* ------------------------------------------------------------------------
\* Arithmetic helpers (Math.min, Math.max, Math.abs, Math.ceil, reduce)
\* ------------------------------------------------------------------------
Min(a, b) == IF a < b THEN a ELSE b

Max(a, b) == IF a > b THEN a ELSE b

Abs(a) == IF a < 0 THEN 0 - a ELSE a

\* Math.floor in the place of Math.ceil
CeilDivMut(a, b) == a \div b

CeilDiv(a, b) == 0 - ((0 - a) \div b)

RECURSIVE SumSeq(_)
SumSeq(s) == IF s = <<>> THEN 0 ELSE Head(s) + SumSeq(Tail(s))

Range(s) == {s[i] : i \in 1..Len(s)}

\* index of the first element of s equal to x, 0 when absent (Array.indexOf + 1)
IndexOf(s, x) ==
  IF \E i \in 1..Len(s) : s[i] = x
  THEN CHOOSE i \in 1..Len(s) : s[i] = x /\ \A j \in 1..(i - 1) : s[j] # x
  ELSE 0

\* new Map(districts.map(d => [d.id, d])).get(id): the LAST district with that id
HasDistrict(ds, id) == \E i \in 1..Len(ds) : ds[i].id = id

DistrictIndex(ds, id) ==
  CHOOSE i \in 1..Len(ds) : ds[i].id = id /\ \A j \in (i + 1)..Len(ds) : ds[j].id # id

GetDistrict(ds, id) == ds[DistrictIndex(ds, id)]

\* ------------------------------------------------------------------------
\* Zoning system
\* ------------------------------------------------------------------------
ZoneTypes == <<"low_density_residential", "mid_density_residential",
               "high_density_residential", "mixed_use", "commercial",
               "industrial", "transit_oriented", "park">>

DENSITY_YIELDS ==
  [low_density_residential |-> 3000, mid_density_residential |-> 10000,
   high_density_residential |-> 25000, mixed_use |-> 15000, commercial |-> 2000,
   industrial |-> 500, transit_oriented |-> 20000, park |-> 0]

JOB_YIELDS ==
  [low_density_residential |-> 500, mid_density_residential |-> 2000,
   high_density_residential |-> 5000, mixed_use |-> 8000, commercial |-> 15000,
   industrial |-> 6000, transit_oriented |-> 10000, park |-> 100]

\* rent multipliers in thousandths
RENT_MULTIPLIERS ==
  [low_density_residential |-> 1300, mid_density_residential |-> 1000,
   high_density_residential |-> 850, mixed_use |-> 900, commercial |-> 1100,
   industrial |-> 700, transit_oriented |-> 800, park |-> 1200]

\* Object.values(zones).reduce((a, b) => a + b, 0), in tenths of a percent
ZoneTotal(zones) == SumSeq([i \in 1..Len(ZoneTypes) |-> zones[ZoneTypes[i]]])

calculateZoningCapacity(d) ==
  LET capacity ==
        SumSeq([i \in 1..Len(ZoneTypes) |->
                  d.zones[ZoneTypes[i]] * d.area * DENSITY_YIELDS[ZoneTypes[i]]])
          \div 1000
  IN Min(capacity, d.maxDensity * d.area)

calculateHousingSupply(ds) ==
  (SumSeq([i \in 1..Len(ds) |-> calculateZoningCapacity(ds[i])]) * 2) \div 5

calculateJobCapacity(ds) ==
  SumSeq([i \in 1..Len(ds) |->
            SumSeq([k \in 1..Len(ZoneTypes) |->
                      ds[i].zones[ZoneTypes[k]] * ds[i].area * JOB_YIELDS[ZoneTypes[k]]])])
    \div 1000

\* result in whole currency units
calculateDistrictRent(d, cityBaseRent, cityMetrics) ==
  LET PosZones == SelectSeq(ZoneTypes, LAMBDA z : d.zones[z] > 0)
      weightedMultiplier ==
        SumSeq([i \in 1..Len(PosZones) |-> RENT_MULTIPLIERS[PosZones[i]] * d.zones[PosZones[i]]])
      totalWeight == SumSeq([i \in 1..Len(PosZones) |-> d.zones[PosZones[i]]])
      avgMultiplier == IF totalWeight > 0 THEN weightedMultiplier \div totalWeight ELSE 1000
      supplyDemandRatio ==
        IF cityMetrics.housingSupply > 0
        THEN (cityMetrics.housingDemand * 1000) \div cityMetrics.housingSupply
        ELSE 2000
      demandPressure == Max(500, Min(2000, supplyDemandRatio))
      transitDiscount == IF d.hasTransitStation THEN 950 ELSE 1050
      densityRatio == (d.currentDensity * 1000) \div Max(d.maxDensity, 1)
      densityEffect == 1000 - (densityRatio * 150) \div 1000
      r1 == (cityBaseRent * avgMultiplier) \div 1000
      r2 == (r1 * demandPressure) \div 1000
      r3 == (r2 * transitDiscount) \div 1000
  IN (r3 * densityEffect) \div 1000

calculateRentBurden(rent, medianIncome) ==
  Min(1000, (rent * 12 * 1000) \div Max(medianIncome, 1))

updateDistrictDensity(d) ==
  [d EXCEPT !.currentDensity = IF d.area > 0 THEN d.population \div d.area ELSE 0]

\* { ...district.zones, ...newZones }: newZones is a partial allocation, given as
\* a function from a subset of the zone types
MergeZones(zones, newZones) ==
  [z \in DOMAIN zones |-> IF z \in DOMAIN newZones THEN newZones[z] ELSE zones[z]]

\* applyZoningChange rejecting a total at the edge of the tolerance
applyZoningChangeMut(d, newZones) ==
  LET merged == MergeZones(d.zones, newZones)
      total == ZoneTotal(merged)
  IN IF Abs(total - 1000) >= 1
     THEN [district |-> d,
           result |-> [success |-> FALSE, error |-> "Zone allocations must sum to 100%"]]
     ELSE [district |-> [d EXCEPT !.zones = merged],
           result |-> [success |-> TRUE, error |-> ""]]

\* returns the district after the call and the returned {success, error}; the
\* error text is kept up to the number it ends with, and is "" when undefined
applyZoningChange(d, newZones) ==
  LET merged == MergeZones(d.zones, newZones)
      total == ZoneTotal(merged)
  IN IF Abs(total - 1000) > 1
     THEN [district |-> d,
           result |-> [success |-> FALSE, error |-> "Zone allocations must sum to 100%"]]
     ELSE [district |-> [d EXCEPT !.zones = merged],
           result |-> [success |-> TRUE, error |-> ""]]

tickZoning(ds, m, cityBaseRent, medianIncome) ==
  LET ds1 == [i \in 1..Len(ds) |-> updateDistrictDensity(ds[i])]
      ds2 == [i \in 1..Len(ds1) |->
                LET rent == calculateDistrictRent(ds1[i], cityBaseRent, m)
                IN [ds1[i] EXCEPT !.metrics.averageRent = rent,
                                  !.metrics.rentBurden = calculateRentBurden(rent, medianIncome)]]
      totalPop == SumSeq([i \in 1..Len(ds2) |-> ds2[i].population])
      m1 == [m EXCEPT !.housingSupply = calculateHousingSupply(ds2),
                      !.jobsTotal = calculateJobCapacity(ds2)]
      m2 == IF totalPop > 0
            THEN [m1 EXCEPT !.averageRent =
                    SumSeq([i \in 1..Len(ds2) |-> ds2[i].metrics.averageRent * ds2[i].population])
                      \div totalPop]
            ELSE m1
  IN [districts |-> ds2, metrics |-> m2]

\* ------------------------------------------------------------------------
\* Traffic system
\* ------------------------------------------------------------------------
\* in thousandths
INDUCED_DEMAND_FACTOR == 150

CONGESTION_COMMUTE_PENALTY == 35

\* thousandths of a minute
BASE_COMMUTE_ADJACENT == 20000

BASE_COMMUTE_DISTANT == 50000

TRANSIT_COMMUTE_REDUCTION == 300

DENSITY_PROXIMITY_FACTOR == 120

MIXED_USE_COMMUTE_REDUCTION == 250

DAMPING == 150

LOAD_DAMPING == 200

\* [a, b].sort().join("|"): an unordered pair of district ids
roadKey(a, b) == IF a <= b THEN <<a, b>> ELSE <<b, a>>

\* in thousandths
calculateCongestion(road, districtA, districtB) ==
  LET key == roadKey(districtA, districtB)
      capacity == IF key \in DOMAIN road.capacities THEN road.capacities[key] ELSE 1000
      load == IF key \in DOMAIN road.loads THEN road.loads[key] ELSE 0
  IN Min((load * 1000) \div capacity, 1000)

getTransitCapacityBetween(a, b, lines) ==
  SumSeq([i \in 1..Len(lines) |->
    LET line == lines[i]
        indexA == IndexOf(line.districts, a)
        indexB == IndexOf(line.districts, b)
    IN IF line.constructionTurnsRemaining > 0 THEN 0
       ELSE IF indexA >= 1 /\ indexB >= 1
            THEN line.capacity \div Max(Abs(indexA - indexB), 1)
            ELSE 0])

\* the (district index, adjacent id) pairs in the order the nested loops of
\* updateRoadLoads / initializeRoadLoads visit them
RECURSIVE AdjacencyPairs(_, _)
AdjacencyPairs(ds, i) ==
  IF i > Len(ds) THEN <<>>
  ELSE [k \in 1..Len(ds[i].adjacentDistricts) |-> <<i, ds[i].adjacentDistricts[k]>>]
         \o AdjacencyPairs(ds, i + 1)

\* one iteration of the inner loop of updateRoadLoads
UpdateOneRoadLoad(road, ds, lines, pair) ==
  LET district == ds[pair[1]]
      adjId == pair[2]
      key == roadKey(district.id, adjId)
  IN IF ~HasDistrict(ds, adjId) THEN road
     ELSE IF key \notin DOMAIN road.capacities THEN road
     ELSE
       LET adj == GetDistrict(ds, adjId)
           capacity == road.capacities[key]
           currentLoad == IF key \in DOMAIN road.loads THEN road.loads[key]
                          ELSE capacity \div 2
           \* target load in thousandths of a vehicle
           t0 == ((district.population + adj.population) * 15) \div 2
           t1 == t0 + (capacity * INDUCED_DEMAND_FACTOR * 2) \div 1000
           transitCap == getTransitCapacityBetween(district.id, adjId, lines)
           transitAbsorption == Min(transitCap * 300, (t1 * 400) \div 1000)
           t2 == t1 - transitAbsorption
           mixedUseRatio == (district.zones.mixed_use + adj.zones.mixed_use) \div 2
           t3 == (t2 * (1000 - (mixedUseRatio * MIXED_USE_COMMUTE_REDUCTION) \div 1000)) \div 1000
           targetLoad == Max(0, t3)
           newLoad == (currentLoad * (1000 - LOAD_DAMPING)
                         + (targetLoad * LOAD_DAMPING) \div 1000) \div 1000
       IN [road EXCEPT !.loads =
             [k \in (DOMAIN road.loads) \cup {key} |-> IF k = key THEN newLoad ELSE road.loads[k]]]

RECURSIVE FoldRoadLoads(_, _, _, _)
FoldRoadLoads(road, ds, lines, pairs) ==
  IF pairs = <<>> THEN road
  ELSE FoldRoadLoads(UpdateOneRoadLoad(road, ds, lines, Head(pairs)), ds, lines, Tail(pairs))

updateRoadLoads(road, ds, lines) == FoldRoadLoads(road, ds, lines, AdjacencyPairs(ds, 1))

\* in thousandths of a minute
calculateTargetCommute(district, ds, road, lines) ==
  LET selfContainedPortion == (district.zones.mixed_use * MIXED_USE_COMMUTE_REDUCTION) \div 1000
      selfContainedCommute == 10000
      Known == SelectSeq(district.adjacentDistricts, LAMBDA a : HasDistrict(ds, a))
      CommuteTo(adjId) ==
        LET adj == GetDistrict(ds, adjId)
            c0 == BASE_COMMUTE_ADJACENT
                    + calculateCongestion(road, district.id, adjId) * CONGESTION_COMMUTE_PENALTY
            transitCap == getTransitCapacityBetween(district.id, adjId, lines)
            transitBenefit == Min(TRANSIT_COMMUTE_REDUCTION, (transitCap * 1000) \div 15000)
            c1 == IF transitCap > 0 THEN (c0 * (1000 - transitBenefit)) \div 1000 ELSE c0
            avgDensityRatio ==
              ((district.currentDensity * 1000) \div Max(district.maxDensity, 1)
                 + (adj.currentDensity * 1000) \div Max(adj.maxDensity, 1)) \div 2
        IN (c1 * (1000 - (avgDensityRatio * DENSITY_PROXIMITY_FACTOR) \div 1000)) \div 1000
      totalCommute == SumSeq([k \in 1..Len(Known) |-> CommuteTo(Known[k])])
      connections == Len(Known)
  IN IF connections = 0 THEN BASE_COMMUTE_DISTANT
     ELSE LET externalCommute == totalCommute \div connections
          IN (selfContainedPortion * selfContainedCommute
                + (1000 - selfContainedPortion) * externalCommute) \div 1000

\* in thousandths; 0 when the network has no segment
calculateCityCongestion(road) ==
  LET keys == DOMAIN road.capacities
      Cong(key) ==
        LET load == IF key \in DOMAIN road.loads THEN road.loads[key] ELSE 0
        IN Min((load * 1000) \div road.capacities[key], 1000)
      RECURSIVE SumCong(_)
      SumCong(ks) == IF ks = {} THEN 0
                     ELSE LET k == CHOOSE x \in ks : TRUE IN Cong(k) + SumCong(ks \ {k})
  IN IF Cardinality(keys) > 0 THEN SumCong(keys) \div Cardinality(keys) ELSE 0

InitOneRoadLoad(road, ds, pair) ==
  LET district == ds[pair[1]]
      adjId == pair[2]
      key == roadKey(district.id, adjId)
  IN IF ~HasDistrict(ds, adjId) THEN road
     ELSE IF key \notin DOMAIN road.capacities THEN road
     ELSE
       LET adj == GetDistrict(ds, adjId)
           avgCongestion ==
             (district.metrics.trafficCongestion + adj.metrics.trafficCongestion) \div 2
           load == (road.capacities[key] * avgCongestion) \div 1000
       IN [road EXCEPT !.loads =
             [k \in (DOMAIN road.loads) \cup {key} |-> IF k = key THEN load ELSE road.loads[k]]]

RECURSIVE FoldInitRoadLoads(_, _, _)
FoldInitRoadLoads(road, ds, pairs) ==
  IF pairs = <<>> THEN road
  ELSE FoldInitRoadLoads(InitOneRoadLoad(road, ds, Head(pairs)), ds, Tail(pairs))

initializeRoadLoads(road, ds) == FoldInitRoadLoads(road, ds, AdjacencyPairs(ds, 1))

tickTraffic(ds, road, lines) ==
  LET road1 == updateRoadLoads(road, ds, lines)
      ds1 == [i \in 1..Len(ds) |->
        LET district == ds[i]
            targetCommute == calculateTargetCommute(district, ds, road1, lines)
            adj == district.adjacentDistricts
            totalCong == SumSeq([k \in 1..Len(adj) |->
                                   calculateCongestion(road1, district.id, adj[k])])
            adjCount == Len(adj)
            targetCongestion == IF adjCount > 0 THEN totalCong \div adjCount ELSE 0
        IN [district EXCEPT
              !.metrics.averageCommuteMinutes =
                 (district.metrics.averageCommuteMinutes * (1000 - DAMPING)
                    + targetCommute * DAMPING) \div 1000,
              !.metrics.trafficCongestion =
                 (district.metrics.trafficCongestion * (1000 - DAMPING)
                    + targetCongestion * DAMPING) \div 1000]]
  IN [districts |-> ds1, roadNetwork |-> road1]

\* ------------------------------------------------------------------------
\* Transit system
\* ------------------------------------------------------------------------
RAIL_PROPERTY_BOOST == 150

BUS_PROPERTY_BOOST == 30

RAIL_DENSITY_THRESHOLD == 8000

RIDERSHIP_DAMPING == 100

MAX_RIDERSHIP_RATIO == 1200

\* calculateRidership without the test of constructionTurnsRemaining
calculateRidershipMut(line, ds) ==
  LET Known == SelectSeq(line.districts, LAMBDA id : HasDistrict(ds, id))
      totalDensity == SumSeq([k \in 1..Len(Known) |-> GetDistrict(ds, Known[k]).currentDensity])
      connectedDistricts == Len(Known)
  IN IF connectedDistricts = 0 THEN 0
     ELSE
       LET avgDensity == totalDensity \div connectedDistricts
           densityFactor ==
             IF line.type = "rail"
             THEN Max(0, (avgDensity * 1000) \div RAIL_DENSITY_THRESHOLD)
             ELSE Max(300, (avgDensity * 1000) \div (RAIL_DENSITY_THRESHOLD \div 2))
           targetRidership == Min(((line.capacity * densityFactor) \div 1000) * 600,
                                  line.capacity * MAX_RIDERSHIP_RATIO)
           newRidership == line.ridership * (1000 - RIDERSHIP_DAMPING)
                             + (targetRidership * RIDERSHIP_DAMPING) \div 1000
       IN Max(0, (newRidership + 500) \div 1000)

calculateRidership(line, ds) ==
  IF line.constructionTurnsRemaining > 0 THEN 0
  ELSE
    LET Known == SelectSeq(line.districts, LAMBDA id : HasDistrict(ds, id))
        totalDensity == SumSeq([k \in 1..Len(Known) |-> GetDistrict(ds, Known[k]).currentDensity])
        connectedDistricts == Len(Known)
    IN IF connectedDistricts = 0 THEN 0
       ELSE
         LET avgDensity == totalDensity \div connectedDistricts
             densityFactor ==
               IF line.type = "rail"
               THEN Max(0, (avgDensity * 1000) \div RAIL_DENSITY_THRESHOLD)
               ELSE Max(300, (avgDensity * 1000) \div (RAIL_DENSITY_THRESHOLD \div 2))
             \* riders, in thousandths
             targetRidership == Min(((line.capacity * densityFactor) \div 1000) * 600,
                                    line.capacity * MAX_RIDERSHIP_RATIO)
             newRidership == line.ridership * (1000 - RIDERSHIP_DAMPING)
                               + (targetRidership * RIDERSHIP_DAMPING) \div 1000
         IN Max(0, (newRidership + 500) \div 1000)

\* the (district id, boost) pairs in the order the loops of
\* applyTransitPropertyEffects visit them
RECURSIVE PropertyBoosts(_, _)
PropertyBoosts(lines, i) ==
  IF i > Len(lines) THEN <<>>
  ELSE LET line == lines[i]
           boost == IF line.type = "rail" THEN RAIL_PROPERTY_BOOST ELSE BUS_PROPERTY_BOOST
           here == IF line.constructionTurnsRemaining > 0 THEN <<>>
                   ELSE [k \in 1..Len(line.districts) |->
                           <<line.districts[k], (boost * line.propertyValueBoost) \div 1000>>]
       IN here \o PropertyBoosts(lines, i + 1)

RECURSIVE FoldPropertyBoosts(_, _)
FoldPropertyBoosts(ds, boosts) ==
  IF boosts = <<>> THEN ds
  ELSE LET id == Head(boosts)[1]
           ds1 == IF HasDistrict(ds, id)
                  THEN [ds EXCEPT ![DistrictIndex(ds, id)] =
                          [@ EXCEPT !.metrics.propertyValue = @ + Head(boosts)[2],
                                    !.hasTransitStation = TRUE]]
                  ELSE ds
       IN FoldPropertyBoosts(ds1, Tail(boosts))

applyTransitPropertyEffects(ds, lines) == FoldPropertyBoosts(ds, PropertyBoosts(lines, 1))

\* progressConstruction announcing every operational line, not only the lines
\* completed by this call
progressConstructionMut(lines) ==
  LET lines1 == [i \in 1..Len(lines) |->
                   IF lines[i].constructionTurnsRemaining > 0
                   THEN [lines[i] EXCEPT !.constructionTurnsRemaining = @ - 1]
                   ELSE lines[i]]
      Done == SelectSeq([i \in 1..Len(lines) |-> i],
                        LAMBDA i : lines1[i].constructionTurnsRemaining = 0)
  IN [lines |-> lines1,
      events |-> [k \in 1..Len(Done) |->
                    [type |-> "milestone", severity |-> "info",
                     message |-> "is now operational!", subject |-> lines[Done[k]].id]]]

\* returns the lines after the countdown step and the milestone events.  A
\* GameEvent keeps its type and severity, the fixed part of its message, and in
\* `subject` the line or district it is about (0 when none)
progressConstruction(lines) ==
  LET lines1 == [i \in 1..Len(lines) |->
                   IF lines[i].constructionTurnsRemaining > 0
                   THEN [lines[i] EXCEPT !.constructionTurnsRemaining = @ - 1]
                   ELSE lines[i]]
      Done == SelectSeq([i \in 1..Len(lines) |-> i],
                        LAMBDA i : lines[i].constructionTurnsRemaining > 0
                                   /\ lines1[i].constructionTurnsRemaining = 0)
  IN [lines |-> lines1,
      events |-> [k \in 1..Len(Done) |->
                    [type |-> "milestone", severity |-> "info",
                     message |-> "is now operational!", subject |-> lines[Done[k]].id]]]

tickTransit(ds, lines, m) ==
  LET pc == progressConstruction(lines)
      ds1 == IF Len(pc.events) > 0 THEN applyTransitPropertyEffects(ds, pc.lines) ELSE ds
      lines2 == [i \in 1..Len(pc.lines) |->
                   [pc.lines[i] EXCEPT !.ridership = calculateRidership(pc.lines[i], ds1)]]
      m1 == [m EXCEPT !.transitRidership =
               SumSeq([i \in 1..Len(lines2) |-> lines2[i].ridership])]
      transitCost ==
        SumSeq([i \in 1..Len(lines2) |->
                  IF lines2[i].constructionTurnsRemaining = 0 THEN lines2[i].operatingCost ELSE 0])
      ds2 == [i \in 1..Len(ds1) |->
                LET mine == SelectSeq(lines2, LAMBDA l : ds1[i].id \in Range(l.districts)
                                                         /\ l.constructionTurnsRemaining = 0)
                IN [ds1[i] EXCEPT !.transitLines = [k \in 1..Len(mine) |-> mine[k].id],
                                  !.hasTransitStation = Len(mine) > 0]]
  IN [districts |-> ds2, transitLines |-> lines2, metrics |-> m1,
      events |-> pc.events, transitCost |-> transitCost]

\* ------------------------------------------------------------------------
\* Economy system and policy effect engine
\* ------------------------------------------------------------------------
MIGRATION_RATE == 20

NATURAL_GROWTH_RATE == 2

TAX_PER_CAPITA == 50

HAPPINESS_WEIGHTS ==
  [commute |-> 250, rent |-> 250, jobs |-> 150, traffic |-> 150, services |-> 100, green |-> 100]

calculateHappiness(d) ==
  LET m == d.metrics
      commuteScore == Max(0, 1000 - m.averageCommuteMinutes \div 60)
      rentScore == Max(0, 1000 - m.rentBurden)
      jobScore == m.jobAccessScore
      trafficScore == 1000 - m.trafficCongestion
      serviceScore == m.publicServiceSatisfaction
      greenScore == m.greenSpaceAccess
  IN (commuteScore * HAPPINESS_WEIGHTS.commute + rentScore * HAPPINESS_WEIGHTS.rent
        + jobScore * HAPPINESS_WEIGHTS.jobs + trafficScore * HAPPINESS_WEIGHTS.traffic
        + serviceScore * HAPPINESS_WEIGHTS.services + greenScore * HAPPINESS_WEIGHTS.green)
       \div 1000

estimateDistrictJobs(d) ==
  LET jobZonePercent == d.zones.mixed_use + d.zones.commercial + d.zones.industrial
                          + d.zones.transit_oriented
  IN (jobZonePercent * d.area * d.currentDensity) \div 2000

calculateJobAccess(d, ds, totalJobs) ==
  IF totalJobs = 0 THEN 0
  ELSE
    LET Known == SelectSeq(d.adjacentDistricts, LAMBDA a : HasDistrict(ds, a))
        localJobs == estimateDistrictJobs(d)
        reachableJobs ==
          localJobs + SumSeq([k \in 1..Len(Known) |->
            LET adj == GetDistrict(ds, Known[k])
                accessFactor == IF d.hasTransitStation /\ adj.hasTransitStation THEN 800 ELSE 500
            IN (estimateDistrictJobs(adj) * accessFactor) \div 1000])
    IN Min(1000, (reachableJobs * 10000) \div (totalJobs * 3))

\* districts.find(dd => dd.id === id): the FIRST district with that id
FindIndex(ds, id) ==
  CHOOSE i \in 1..Len(ds) : ds[i].id = id /\ \A j \in 1..(i - 1) : ds[j].id # id

\* attractiveness score of a district, in thousandths
Attractiveness(d) ==
  (d.metrics.happiness * 400 + (1000 - d.metrics.rentBurden) * 300
     + d.metrics.jobAccessScore * 300) \div 1000

\* attractiveness.get(id) ?? 0.5: the Map keeps the last score set for an id
AttractivenessOf(ds, id) ==
  IF HasDistrict(ds, id) THEN Attractiveness(GetDistrict(ds, id)) ELSE 500

\* MigrantsBetween taking the larger of the two candidate counts
MigrantsBetweenMut(ds, d, adjId) ==
  IF ~HasDistrict(ds, adjId) THEN 0
  ELSE LET adjDistrict == ds[FindIndex(ds, adjId)]
           diff == AttractivenessOf(ds, adjId) - AttractivenessOf(ds, d.id)
           adjRoom == adjDistrict.maxDensity * adjDistrict.area - adjDistrict.population
           migrants == (d.population * MIGRATION_RATE * diff) \div 1000000
       IN IF diff > 50 /\ adjRoom > 0 THEN Max(migrants, adjRoom \div 10) ELSE 0

\* MigrantsBetween with the difference of the scores taken the other way round
MigrantsBetweenAwayMut(ds, d, adjId) ==
  IF ~HasDistrict(ds, adjId) THEN 0
  ELSE LET adjDistrict == ds[FindIndex(ds, adjId)]
           diff == AttractivenessOf(ds, d.id) - AttractivenessOf(ds, adjId)
           adjRoom == adjDistrict.maxDensity * adjDistrict.area - adjDistrict.population
           migrants == (d.population * MIGRATION_RATE * diff) \div 1000000
       IN IF diff > 50 /\ adjRoom > 0 THEN Min(migrants, adjRoom \div 10) ELSE 0

\* number of people the scoring loop moves from district d to adjId (0: no move)

MigrantsBetween(ds, d, adjId) ==
  IF ~HasDistrict(ds, adjId) THEN 0
  ELSE LET adjDistrict == ds[FindIndex(ds, adjId)]
           diff == AttractivenessOf(ds, adjId) - AttractivenessOf(ds, d.id)
           adjRoom == adjDistrict.maxDensity * adjDistrict.area - adjDistrict.population
           migrants == (d.population * MIGRATION_RATE * diff) \div 1000000
       IN IF diff > 50 /\ adjRoom > 0 THEN Min(migrants, adjRoom \div 10) ELSE 0

\* the moves pushed by the scoring loops, in order
RECURSIVE MigrationMoves(_, _)
MigrationMoves(ds, i) ==
  IF i > Len(ds) THEN <<>>
  ELSE LET d == ds[i]
           all == [k \in 1..Len(d.adjacentDistricts) |->
                     [from |-> d.id, to |-> d.adjacentDistricts[k],
                      count |-> MigrantsBetween(ds, d, d.adjacentDistricts[k])]]
       IN SelectSeq(all, LAMBDA mv : mv.count > 0) \o MigrationMoves(ds, i + 1)

RECURSIVE ApplyMoves(_, _)
ApplyMoves(ds, moves) ==
  IF moves = <<>> THEN ds
  ELSE LET mv == Head(moves)
           ds1 == IF HasDistrict(ds, mv.from) /\ HasDistrict(ds, mv.to)
                  THEN LET a == [ds EXCEPT ![DistrictIndex(ds, mv.from)].population = @ - mv.count]
                       IN [a EXCEPT ![DistrictIndex(ds, mv.to)].population = @ + mv.count]
                  ELSE ds
       IN ApplyMoves(ds1, Tail(moves))

\* simulateMigration counting the arrivals of a district but not its
\* departures
simulateMigrationLossyMut(ds) ==
  LET moves == MigrationMoves(ds, 1)
      moved == ApplyMoves(ds, moves)
  IN [districts |-> [i \in 1..Len(ds) |->
                       [moved[i] EXCEPT !.population = Max(@, ds[i].population)]],
      moves |-> moves]

simulateMigration(ds) ==
  LET moves == MigrationMoves(ds, 1)
  IN [districts |-> ApplyMoves(ds, moves), moves |-> moves]

applyPopulationGrowth(ds) ==
  [i \in 1..Len(ds) |->
     LET d == ds[i]
         room == d.maxDensity * d.area - d.population
         growth == (d.population * NATURAL_GROWTH_RATE) \div 1000
     IN IF room > 0
        THEN [d EXCEPT !.population = @ + Min(growth, room \div 20)]
        ELSE d]

updateBudget(b, ds) ==
  LET totalPop == SumSeq([i \in 1..Len(ds) |-> ds[i].population])
      income == (totalPop * TAX_PER_CAPITA * b.taxRate) \div 1000000
      net == income - b.expensesPerTurn
      balance == b.balance + net
      events ==
        IF balance < 0
        THEN <<[type |-> "budget", severity |-> "critical", message |-> "Budget deficit!",
                subject |-> 0]>>
        ELSE IF net < 0
             THEN <<[type |-> "budget", severity |-> "warning", message |-> "Running a deficit",
                     subject |-> 0]>>
             ELSE <<>>
  IN [budget |-> [b EXCEPT !.incomePerTurn = income, !.balance = balance], events |-> events]

ClampedMetrics == {"trafficCongestion", "rentBurden", "happiness", "jobAccessScore",
                   "publicServiceSatisfaction", "greenSpaceAccess"}

clampMetric(obj, key) ==
  IF key \in ClampedMetrics THEN [obj EXCEPT ![key] = Max(0, Min(1000, obj[key]))] ELSE obj

\* BumpDistrict falling back on the first district when the id is unknown
BumpDistrictFallbackMut(ds, id, metric, delta) ==
  IF HasDistrict(ds, id) /\ metric \in DOMAIN GetDistrict(ds, id).metrics
  THEN [ds EXCEPT ![DistrictIndex(ds, id)].metrics =
          clampMetric([@ EXCEPT ![metric] = @ + delta], metric)]
  ELSE IF metric \in DOMAIN ds[1].metrics
       THEN [ds EXCEPT ![1].metrics = clampMetric([@ EXCEPT ![metric] = @ + delta], metric)]
       ELSE ds

\* d.metrics[metric] += delta; clampMetric(d.metrics, metric), for the district
\* with the given id when it exists and has the metric
BumpDistrict(ds, id, metric, delta) ==
  IF HasDistrict(ds, id) /\ metric \in DOMAIN GetDistrict(ds, id).metrics
  THEN [ds EXCEPT ![DistrictIndex(ds, id)].metrics =
          clampMetric([@ EXCEPT ![metric] = @ + delta], metric)]
  ELSE ds

RECURSIVE BumpDistricts(_, _, _, _)
BumpDistricts(ds, ids, metric, delta) ==
  IF ids = <<>> THEN ds
  ELSE BumpDistricts(BumpDistrict(ds, Head(ids), metric, delta), Tail(ids), metric, delta)

\* ApplyEffect giving the neighbours of an adjacent scope the full delta
ApplyEffectFullAdjacentMut(effect, ds, m) ==
  CASE effect.target.type = "district" ->
         [districts |-> BumpDistrict(ds, effect.target.districtId, effect.metric, effect.delta),
          metrics |-> m]
    [] effect.target.type = "districts" ->
         [districts |-> BumpDistricts(ds, effect.target.districtIds, effect.metric, effect.delta),
          metrics |-> m]
    [] effect.target.type = "city" ->
         [districts |-> ds,
          metrics |-> IF effect.metric \in DOMAIN m
                      THEN [m EXCEPT ![effect.metric] = @ + effect.delta] ELSE m]
    [] effect.target.type = "adjacent" ->
         [districts |->
            IF HasDistrict(ds, effect.target.districtId)
            THEN BumpDistricts(ds, GetDistrict(ds, effect.target.districtId).adjacentDistricts,
                               effect.metric, effect.delta)
            ELSE ds,
          metrics |-> m]
    [] OTHER -> [districts |-> ds, metrics |-> m]

\* the switch over effect.target.type: the districts and city metrics after
\* one application of the effect
ApplyEffect(effect, ds, m) ==
  CASE effect.target.type = "district" ->
         [districts |-> BumpDistrict(ds, effect.target.districtId, effect.metric, effect.delta),
          metrics |-> m]
    [] effect.target.type = "districts" ->
         [districts |-> BumpDistricts(ds, effect.target.districtIds, effect.metric, effect.delta),
          metrics |-> m]
    [] effect.target.type = "city" ->
         [districts |-> ds,
          metrics |-> IF effect.metric \in DOMAIN m
                      THEN [m EXCEPT ![effect.metric] = @ + effect.delta] ELSE m]
    [] effect.target.type = "adjacent" ->
         [districts |->
            IF HasDistrict(ds, effect.target.districtId)
            THEN BumpDistricts(ds, GetDistrict(ds, effect.target.districtId).adjacentDistricts,
                               effect.metric, effect.delta \div 2)
            ELSE ds,
          metrics |-> m]
    [] OTHER -> [districts |-> ds, metrics |-> m]

\* StepEffect without the `continue` of the delay branch
StepEffectMut(ae, ds, m) ==
  LET r == ApplyEffect(ae.effect, ds, m)
  IN IF ae.turnsUntilActive > 0
     THEN [ae |-> [ae EXCEPT !.turnsUntilActive = @ - 1, !.applied = @ + 1],
           districts |-> r.districts, metrics |-> r.metrics]
     ELSE [ae |-> [ae EXCEPT !.turnsRemaining = IF @ > 0 THEN @ - 1 ELSE @,
                             !.applied = @ + 1],
           districts |-> r.districts, metrics |-> r.metrics]

\* one iteration of the loop over activeEffects.  The field `applied` is a
\* history counter: the number of times the switch ran for this entry.
StepEffect(ae, ds, m) ==
  IF ae.turnsUntilActive > 0
  THEN [ae |-> [ae EXCEPT !.turnsUntilActive = @ - 1], districts |-> ds, metrics |-> m]
  ELSE LET r == ApplyEffect(ae.effect, ds, m)
       IN [ae |-> [ae EXCEPT !.turnsRemaining = IF @ > 0 THEN @ - 1 ELSE @,
                             !.applied = @ + 1],
           districts |-> r.districts, metrics |-> r.metrics]

RECURSIVE FoldEffects(_, _, _, _)
FoldEffects(todo, done, ds, m) ==
  IF todo = <<>> THEN [activeEffects |-> done, districts |-> ds, metrics |-> m]
  ELSE LET r == StepEffect(Head(todo), ds, m)
       IN FoldEffects(Tail(todo), Append(done, r.ae), r.districts, r.metrics)

\* applyActiveEffects without the sweep of the expired entries
applyActiveEffectsNoSweepMut(aes, ds, m) ==
  FoldEffects(aes, <<>>, ds, m)

applyActiveEffects(aes, ds, m) ==
  LET r == FoldEffects(aes, <<>>, ds, m)
  IN [r EXCEPT !.activeEffects = SelectSeq(@, LAMBDA ae : ae.turnsRemaining # 0)]

updateCityMetrics(ds, m) ==
  LET totalPop == SumSeq([i \in 1..Len(ds) |-> ds[i].population])
      m1 == [m EXCEPT !.totalPopulation = totalPop]
      Avg(f(_)) == SumSeq([i \in 1..Len(ds) |-> f(ds[i]) * ds[i].population]) \div totalPop
      commuteOf(d) == d.metrics.averageCommuteMinutes
      happinessOf(d) == d.metrics.happiness
      congestionOf(d) == d.metrics.trafficCongestion
  IN IF totalPop = 0 THEN m1
     ELSE [m1 EXCEPT !.averageCommute = Avg(commuteOf),
                     !.overallHappiness = Avg(happinessOf),
                     !.congestionIndex = Avg(congestionOf),
                     !.housingDemand = (totalPop * 11) \div 25,
                     !.budgetHealth = Max(0, Min(1000, 500))]

\* the fifth argument the engine passes (transitCost) has no parameter here
tickEconomy(ds, m, b, aes) ==
  LET e == applyActiveEffects(aes, ds, m)
      ds1 == [i \in 1..Len(e.districts) |->
                [e.districts[i] EXCEPT !.metrics.happiness = calculateHappiness(e.districts[i])]]
      ds2 == [i \in 1..Len(ds1) |->
                [ds1[i] EXCEPT !.metrics.jobAccessScore =
                   calculateJobAccess(ds1[i], ds1, e.metrics.jobsTotal)]]
      ds3 == applyPopulationGrowth(ds2)
      mig == simulateMigration(ds3)
      m1 == updateCityMetrics(mig.districts, e.metrics)
      bud == updateBudget(b, mig.districts)
  IN [districts |-> mig.districts, metrics |-> m1, budget |-> bud.budget,
      activeEffects |-> e.activeEffects, moves |-> mig.moves, events |-> bud.events]

\* ------------------------------------------------------------------------
\* Politics system
\* ------------------------------------------------------------------------
HIGH_RISK_THRESHOLD == 350

APPROVAL_DECAY == 8

HAPPINESS_APPROVAL_WEIGHT == 350

\* in thousandths
getIdeologyScore(leaning, proposal) ==
  LET cat == proposal.category
  IN CASE leaning = "progressive" ->
            (CASE cat = "housing" -> 800 [] cat = "transit" -> 700
               [] cat = "congestion_pricing" -> 400 [] cat = "zoning" -> 300 [] OTHER -> 0)
       [] leaning = "conservative" ->
            (CASE cat = "congestion_pricing" -> -400 [] cat = "taxation" -> -800
               [] cat = "zoning" -> -300 [] OTHER -> 0)
       [] leaning = "nimby" ->
            (CASE cat = "zoning" -> -900 [] cat = "housing" -> -400 [] OTHER -> 0)
       [] leaning = "yimby" ->
            (CASE cat = "zoning" -> 900 [] cat = "housing" -> 700
               [] cat = "transit" -> 500 [] OTHER -> 0)
       [] leaning = "populist" ->
            (CASE cat = "congestion_pricing" -> -700 [] cat = "taxation" -> -500
               [] cat = "housing" -> 500 [] cat = "transit" -> 300 [] OTHER -> 0)
       [] leaning = "moderate" -> 100
       [] OTHER -> 0

\* the score of determineVote, in thousandths
VoteScore(rep, proposal, district) ==
  LET m == district.metrics
      cat == proposal.category
      targetIncludesDistrict ==
        proposal.targetDistricts.all \/ district.id \in Range(proposal.targetDistricts.ids)
      ideology == getIdeologyScore(rep.leaning, proposal) * 2
      traffic == IF m.trafficCongestion > 500 /\ cat \in {"transit", "congestion_pricing"}
                 THEN (m.trafficCongestion - 300) * 3 ELSE 0
      rent == IF m.rentBurden > 350 /\ cat \in {"housing", "zoning"}
              THEN ((m.rentBurden - 250) * 5) \div 2 ELSE 0
      infra == IF m.publicServiceSatisfaction < 500 /\ cat = "infrastructure"
               THEN (500 - m.publicServiceSatisfaction) * 2 ELSE 0
      priority == IF cat \in Range(rep.priorities) THEN 1000 ELSE 0
      targeting == IF targetIncludesDistrict THEN 500 ELSE -300
      costPenalty == Min(1500, proposal.cost \div 2)
      budgetTerm == IF proposal.cost > 0
                    THEN IF rep.leaning = "conservative"
                         THEN 0 - (costPenalty * 3) \div 2
                         ELSE 0 - (costPenalty * 3) \div 10
                    ELSE 500
      risk == IF rep.reElectionRisk > 500 /\ proposal.politicalCost > 600
              THEN 0 - (rep.reElectionRisk * proposal.politicalCost) \div 1000 ELSE 0
      populist == IF rep.leaning = "populist" /\ cat = "congestion_pricing" THEN -1500 ELSE 0
  IN ideology + traffic + rent + infra + priority + targeting + budgetTerm + risk + populist

determineVote(rep, proposal, district) == VoteScore(rep, proposal, district) > 0

\* representatives.find(r => r.id === id): index of the first one, 0 when absent
FindRep(reps, id) ==
  IF \E i \in 1..Len(reps) : reps[i].id = id
  THEN CHOOSE i \in 1..Len(reps) : reps[i].id = id /\ \A j \in 1..(i - 1) : reps[j].id # id
  ELSE 0

\* conductVote deciding an executive order by the simple majority of the votes
conductVoteMut(proposal, reps, ds) ==
  LET Voters == SelectSeq(reps, LAMBDA r : HasDistrict(ds, r.districtId))
      votes == [i \in 1..Len(Voters) |->
                  [representativeId |-> Voters[i].id,
                   votedYes |-> determineVote(Voters[i], proposal,
                                              GetDistrict(ds, Voters[i].districtId))]]
      votesFor == Len(SelectSeq(votes, LAMBDA v : v.votedYes))
      votesAgainst == Len(votes) - votesFor
      totalVoters == Len(votes)
      PopOf(v) == LET k == FindRep(reps, v.representativeId)
                  IN IF k = 0 THEN 0
                     ELSE IF HasDistrict(ds, reps[k].districtId)
                          THEN GetDistrict(ds, reps[k].districtId).population ELSE 0
      popTotal == SumSeq([i \in 1..Len(votes) |-> PopOf(votes[i])])
      popFor == SumSeq([i \in 1..Len(votes) |-> IF votes[i].votedYes THEN PopOf(votes[i]) ELSE 0])
      passed ==
        CASE proposal.voteRequirement = "simple_majority" -> 2 * votesFor > totalVoters
          [] proposal.voteRequirement = "super_majority" -> votesFor >= CeilDiv(totalVoters * 2, 3)
          [] proposal.voteRequirement = "executive_order" -> 2 * votesFor > totalVoters
          [] proposal.voteRequirement = "referendum" -> 2 * popFor > popTotal
          [] OTHER -> FALSE
  IN [policyId |-> proposal.id, votes |-> votes, passed |-> passed, votesFor |-> votesFor,
      votesAgainst |-> votesAgainst, required |-> proposal.voteRequirement]

\* conductVote passing a simple majority on votesFor >= totalVoters / 2
conductVoteTieMut(proposal, reps, ds) ==
  LET r == conductVoteMut(proposal, reps, ds)
  IN [r EXCEPT !.passed =
        CASE proposal.voteRequirement = "simple_majority" -> 2 * r.votesFor >= Len(r.votes)
          [] proposal.voteRequirement = "executive_order" -> TRUE
          [] OTHER -> @]

\* conductVote deciding a referendum by the head count of the votes
conductVoteHeadCountMut(proposal, reps, ds) ==
  LET r == conductVoteMut(proposal, reps, ds)
  IN [r EXCEPT !.passed =
        CASE proposal.voteRequirement = "referendum" -> 2 * r.votesFor > Len(r.votes)
          [] proposal.voteRequirement = "executive_order" -> TRUE
          [] OTHER -> @]

\* conductVote counting votesAgainst from representatives.length
conductVoteSeatsMut(proposal, reps, ds) ==
  LET r == conductVoteMut(proposal, reps, ds)
  IN [r EXCEPT !.votesAgainst = Len(reps) - r.votesFor,
               !.passed = IF proposal.voteRequirement = "executive_order" THEN TRUE ELSE @]

conductVote(proposal, reps, ds) ==
  LET Voters == SelectSeq(reps, LAMBDA r : HasDistrict(ds, r.districtId))
      votes == [i \in 1..Len(Voters) |->
                  [representativeId |-> Voters[i].id,
                   votedYes |-> determineVote(Voters[i], proposal,
                                              GetDistrict(ds, Voters[i].districtId))]]
      votesFor == Len(SelectSeq(votes, LAMBDA v : v.votedYes))
      votesAgainst == Len(votes) - votesFor
      totalVoters == Len(votes)
      PopOf(v) == LET k == FindRep(reps, v.representativeId)
                  IN IF k = 0 THEN 0
                     ELSE IF HasDistrict(ds, reps[k].districtId)
                          THEN GetDistrict(ds, reps[k].districtId).population ELSE 0
      popTotal == SumSeq([i \in 1..Len(votes) |-> PopOf(votes[i])])
      popFor == SumSeq([i \in 1..Len(votes) |-> IF votes[i].votedYes THEN PopOf(votes[i]) ELSE 0])
      passed ==
        CASE proposal.voteRequirement = "simple_majority" -> 2 * votesFor > totalVoters
          [] proposal.voteRequirement = "super_majority" -> votesFor >= CeilDiv(totalVoters * 2, 3)
          [] proposal.voteRequirement = "executive_order" -> TRUE
          [] proposal.voteRequirement = "referendum" -> 2 * popFor > popTotal
          [] OTHER -> FALSE
  IN [policyId |-> proposal.id, votes |-> votes, passed |-> passed, votesFor |-> votesFor,
      votesAgainst |-> votesAgainst, required |-> proposal.voteRequirement]

\* updateApproval deriving the re-election risk from the approval before the
\* update
updateApprovalStaleRiskMut(reps, ds) ==
  [i \in 1..Len(reps) |->
     IF ~HasDistrict(ds, reps[i].districtId) THEN reps[i]
     ELSE LET district == GetDistrict(ds, reps[i].districtId)
              happinessEffect == ((district.metrics.happiness - 500) * HAPPINESS_APPROVAL_WEIGHT)
                                   \div 1000
              approval == Max(0, Min(1000, reps[i].approvalRating + happinessEffect - APPROVAL_DECAY))
          IN [reps[i] EXCEPT !.approvalRating = approval,
                             !.reElectionRisk =
                                IF reps[i].approvalRating < HIGH_RISK_THRESHOLD THEN 800
                                ELSE IF reps[i].approvalRating < 500 THEN 500 ELSE 200]]

updateApproval(reps, ds) ==
  [i \in 1..Len(reps) |->
     IF ~HasDistrict(ds, reps[i].districtId) THEN reps[i]
     ELSE LET district == GetDistrict(ds, reps[i].districtId)
              happinessEffect == ((district.metrics.happiness - 500) * HAPPINESS_APPROVAL_WEIGHT)
                                   \div 1000
              approval == Max(0, Min(1000, reps[i].approvalRating + happinessEffect - APPROVAL_DECAY))
          IN [reps[i] EXCEPT !.approvalRating = approval,
                             !.reElectionRisk = IF approval < HIGH_RISK_THRESHOLD THEN 800
                                                ELSE IF approval < 500 THEN 500 ELSE 200]]

determineNewLeaning(district) ==
  LET m == district.metrics
  IN IF m.rentBurden > 500
     THEN (IF m.trafficCongestion > 500 THEN "yimby" ELSE "progressive")
     ELSE IF district.currentDensity * 10 < district.maxDensity * 3 THEN "nimby"
     ELSE IF m.trafficCongestion > 700 THEN "populist"
     ELSE "moderate"

\* the three most urgent categories; Array.prototype.sort is stable
determinePriorities(district) ==
  LET m == district.metrics
      pr == <<[cat |-> "transit", urgency |-> m.trafficCongestion],
              [cat |-> "housing", urgency |-> m.rentBurden],
              [cat |-> "congestion_pricing", urgency |-> (m.trafficCongestion * 800) \div 1000],
              [cat |-> "zoning", urgency |-> (m.rentBurden * 900) \div 1000],
              [cat |-> "infrastructure", urgency |-> 1000 - m.publicServiceSatisfaction],
              [cat |-> "budget", urgency |-> 300]>>
      Rank(i) == 1 + Cardinality({j \in 1..Len(pr) :
                        \/ pr[j].urgency > pr[i].urgency
                        \/ (pr[j].urgency = pr[i].urgency /\ j < i)})
  IN [k \in 1..3 |-> pr[CHOOSE i \in 1..Len(pr) : Rank(i) = k].cat]

\* rep.id.charCodeAt(0): every representative id starts with "r"
CharCode0(id) == 114

\* seededRandom(seed) = frac(sin(seed) * 10000), in thousandths, tabulated for
\* the seeds turn * 1000 + 114 of the first twelve turns
SeededRandomTable ==
  <<254, 301, 13, 612, 460, 717, 896, 144, 771, 422, 969, 266>>

seededRandom(seed) == SeededRandomTable[(seed - 114) \div 1000]

\* the loop body of runElection unseating on the draw alone, whatever the
\* approval of the incumbent
ElectOneDrawOnlyMut(acc, ds, t, i) ==
  LET rep == acc.representatives[i]
  IN IF ~HasDistrict(ds, rep.districtId) THEN acc
     ELSE
       LET district == GetDistrict(ds, rep.districtId)
           loses == seededRandom(t * 1000 + CharCode0(rep.id)) < rep.reElectionRisk
           newRep == [id |-> <<"rep", district.id, t>>, districtId |-> district.id,
                      leaning |-> determineNewLeaning(district), approvalRating |-> 550,
                      reElectionRisk |-> 200, priorities |-> determinePriorities(district),
                      voteHistory |-> <<>>, termNumber |-> 1]
       IN IF loses
          THEN [representatives |-> [acc.representatives EXCEPT ![i] = newRep],
                results |-> Append(acc.results,
                   [districtId |-> district.id, incumbentId |-> rep.id, outcome |-> "replaced",
                    newRepresentativeId |-> newRep.id, approvalAtElection |-> rep.approvalRating]),
                events |-> Append(acc.events,
                   [type |-> "election", severity |-> "warning", message |-> "seat flipped",
                    subject |-> district.id])]
          ELSE [representatives |-> [acc.representatives EXCEPT ![i].termNumber = @ + 1],
                results |-> Append(acc.results,
                   [districtId |-> district.id, incumbentId |-> rep.id, outcome |-> "retained",
                    newRepresentativeId |-> <<>>, approvalAtElection |-> rep.approvalRating]),
                events |-> acc.events]

\* one iteration of the loop of runElection, for the representative at index i
ElectOne(acc, ds, t, i) ==
  LET rep == acc.representatives[i]
  IN IF ~HasDistrict(ds, rep.districtId) THEN acc
     ELSE
       LET district == GetDistrict(ds, rep.districtId)
           loseChance == rep.reElectionRisk
           random == seededRandom(t * 1000 + CharCode0(rep.id))
           loses == random < loseChance /\ rep.approvalRating < 500
           newLeaning == determineNewLeaning(district)
           newRep == [id |-> <<"rep", district.id, t>>, districtId |-> district.id,
                      leaning |-> newLeaning, approvalRating |-> 550, reElectionRisk |-> 200,
                      priorities |-> determinePriorities(district), voteHistory |-> <<>>,
                      termNumber |-> 1]
       IN IF loses
          THEN [representatives |-> [acc.representatives EXCEPT ![i] = newRep],
                results |-> Append(acc.results,
                   [districtId |-> district.id, incumbentId |-> rep.id, outcome |-> "replaced",
                    newRepresentativeId |-> newRep.id, approvalAtElection |-> rep.approvalRating]),
                events |-> Append(acc.events,
                   [type |-> "election", severity |-> "warning", message |-> "seat flipped",
                    subject |-> district.id])]
          ELSE [representatives |-> [acc.representatives EXCEPT ![i].termNumber = @ + 1],
                results |-> Append(acc.results,
                   [districtId |-> district.id, incumbentId |-> rep.id, outcome |-> "retained",
                    newRepresentativeId |-> <<>>, approvalAtElection |-> rep.approvalRating]),
                events |-> acc.events]

RECURSIVE FoldElection(_, _, _, _)
FoldElection(acc, ds, t, i) ==
  IF i > Len(acc.representatives) THEN acc
  ELSE FoldElection(ElectOne(acc, ds, t, i), ds, t, i + 1)

\* runElection reporting only the seats that changed holder
runElectionChangesOnlyMut(reps, ds, t) ==
  LET r == FoldElection([representatives |-> reps, results |-> <<>>, events |-> <<>>], ds, t, 1)
  IN [representatives |-> r.representatives,
      result |-> [turn |-> t,
                  results |-> SelectSeq(r.results, LAMBDA e : e.outcome = "replaced")],
      events |-> r.events]

runElection(reps, ds, t) ==
  LET r == FoldElection([representatives |-> reps, results |-> <<>>, events |-> <<>>], ds, t, 1)
  IN [representatives |-> r.representatives,
      result |-> [turn |-> t, results |-> r.results],
      events |-> r.events]

\* ------------------------------------------------------------------------
\* Simulation engine
\* ------------------------------------------------------------------------
DEFAULT_BASE_RENT == 1200

DEFAULT_MEDIAN_INCOME == 50000

BankruptcyThreshold == -10000

\* an optional value (T | null | undefined) is <<>> when absent and <<v>> when present
Absent == <<>>

Present(v) == <<v>>

\* the engine state as one record, so that operations are functions of it
State ==
  [districts |-> districts, roadNetwork |-> roadNetwork, transitLines |-> transitLines,
   budget |-> budget, representatives |-> representatives, scenarioGoals |-> scenarioGoals,
   electionInterval |-> electionInterval, turn |-> turn, mode |-> mode, metrics |-> metrics,
   activeEffects |-> activeEffects, policyHistory |-> policyHistory,
   electionLog |-> electionLog, lastVoteResult |-> lastVoteResult, gameOver |-> gameOver,
   gameOverReason |-> gameOverReason]

checkGoals(goals, m) ==
  [i \in 1..Len(goals) |->
     [goal |-> goals[i],
      met |-> IF goals[i].comparison = "above" THEN m[goals[i].metric] >= goals[i].target
              ELSE m[goals[i].metric] <= goals[i].target]]

\* checkGameOver testing the goals before the balance
checkGameOverMut(s) ==
  LET goals == checkGoals(s.scenarioGoals, s.metrics)
  IN IF Len(goals) > 0 /\ \A i \in 1..Len(goals) : goals[i].met
     THEN [gameOver |-> TRUE, gameOverReason |-> "All scenario goals achieved!",
           events |-> <<[type |-> "milestone", severity |-> "info",
                         message |-> "Congratulations! All scenario goals achieved!",
                         subject |-> 0]>>]
     ELSE IF s.budget.balance < BankruptcyThreshold
          THEN [gameOver |-> TRUE, gameOverReason |-> "City went bankrupt.",
                events |-> <<[type |-> "crisis", severity |-> "critical",
                              message |-> "The city is bankrupt! Game over.", subject |-> 0]>>]
          ELSE [gameOver |-> s.gameOver, gameOverReason |-> s.gameOverReason, events |-> <<>>]

\* applied to the state at the end of a tick; returns the new flags and the
\* event pushed, if any
checkGameOver(s) ==
  LET goals == checkGoals(s.scenarioGoals, s.metrics)
  IN IF s.budget.balance < BankruptcyThreshold
     THEN [gameOver |-> TRUE, gameOverReason |-> "City went bankrupt.",
           events |-> <<[type |-> "crisis", severity |-> "critical",
                         message |-> "The city is bankrupt! Game over.", subject |-> 0]>>]
     ELSE IF Len(goals) > 0 /\ \A i \in 1..Len(goals) : goals[i].met
          THEN [gameOver |-> TRUE, gameOverReason |-> "All scenario goals achieved!",
                events |-> <<[type |-> "milestone", severity |-> "info",
                              message |-> "Congratulations! All scenario goals achieved!",
                              subject |-> 0]>>]
          ELSE [gameOver |-> s.gameOver, gameOverReason |-> s.gameOverReason, events |-> <<>>]

emptyTurnResult(s) ==
  [op |-> "tick", turn |-> s.turn, metricsBefor |-> s.metrics, metricsAfter |-> s.metrics,
   districtChanges |-> <<>>, populationMoves |-> <<>>,
   events |-> <<[type |-> "crisis", severity |-> "critical", message |-> "Game is over.",
                 subject |-> 0]>>,
   election |-> Absent, voteResult |-> Absent]

\* applyPolicy storing the duration as the countdown, without the sentinel
applyPolicyMut(s, proposal) ==
  LET votesFor == IF s.lastVoteResult = Absent THEN 0 ELSE s.lastVoteResult[1].votesFor
      votesAgainst == IF s.lastVoteResult = Absent THEN 0 ELSE s.lastVoteResult[1].votesAgainst
  IN [s EXCEPT
        !.policyHistory = Append(@, [policy |-> proposal, turnPassed |-> s.turn,
                                     votesFor |-> votesFor, votesAgainst |-> votesAgainst]),
        !.activeEffects = @ \o [i \in 1..Len(proposal.effects) |->
            [policyId |-> proposal.id, effect |-> proposal.effects[i],
             turnsRemaining |-> proposal.effects[i].duration,
             turnsUntilActive |-> proposal.effects[i].delay,
             applied |-> 0]],
        !.budget.balance = @ - proposal.cost]

\* applyPolicy deducting the cost of the proposal twice
applyPolicyTwiceMut(s, proposal) ==
  LET votesFor == IF s.lastVoteResult = Absent THEN 0 ELSE s.lastVoteResult[1].votesFor
      votesAgainst == IF s.lastVoteResult = Absent THEN 0 ELSE s.lastVoteResult[1].votesAgainst
  IN [s EXCEPT
        !.policyHistory = Append(@, [policy |-> proposal, turnPassed |-> s.turn,
                                     votesFor |-> votesFor, votesAgainst |-> votesAgainst]),
        !.activeEffects = @ \o [i \in 1..Len(proposal.effects) |->
            [policyId |-> proposal.id, effect |-> proposal.effects[i],
             turnsRemaining |-> IF proposal.effects[i].duration = 0 THEN -1
                                ELSE proposal.effects[i].duration,
             turnsUntilActive |-> proposal.effects[i].delay,
             applied |-> 0]],
        !.budget.balance = @ - 2 * proposal.cost]

applyPolicy(s, proposal) ==
  LET votesFor == IF s.lastVoteResult = Absent THEN 0 ELSE s.lastVoteResult[1].votesFor
      votesAgainst == IF s.lastVoteResult = Absent THEN 0 ELSE s.lastVoteResult[1].votesAgainst
  IN [s EXCEPT
        !.policyHistory = Append(@, [policy |-> proposal, turnPassed |-> s.turn,
                                     votesFor |-> votesFor, votesAgainst |-> votesAgainst]),
        !.activeEffects = @ \o [i \in 1..Len(proposal.effects) |->
            [policyId |-> proposal.id, effect |-> proposal.effects[i],
             turnsRemaining |-> IF proposal.effects[i].duration = 0 THEN -1
                                ELSE proposal.effects[i].duration,
             turnsUntilActive |-> proposal.effects[i].delay,
             applied |-> 0]],
        !.budget.balance = @ - proposal.cost]

\* rep.voteHistory.push(...) for every vote of the result, in order
RECURSIVE PushVotes(_, _, _, _)
PushVotes(reps, votes, policyId, t) ==
  IF votes = <<>> THEN reps
  ELSE LET k == FindRep(reps, Head(votes).representativeId)
           reps1 == IF k = 0 THEN reps
                    ELSE [reps EXCEPT ![k].voteHistory =
                            Append(@, [policyId |-> policyId, turn |-> t,
                                       votedYes |-> Head(votes).votedYes])]
       IN PushVotes(reps1, Tail(votes), policyId, t)

\* the statements of proposePolicy after its game-over guard
proposePolicyBody(s, proposal) ==
  IF s.mode = "sandbox"
  THEN [state |-> applyPolicy(s, proposal),
        value |-> Present([policyId |-> proposal.id, votes |-> <<>>, passed |-> TRUE,
                           votesFor |-> 0, votesAgainst |-> 0, required |-> "executive_order"])]
  ELSE LET result == conductVote(proposal, s.representatives, s.districts)
           s1 == [s EXCEPT !.lastVoteResult = Present(result)]
           s2 == IF result.passed THEN applyPolicy(s1, proposal) ELSE s1
           s3 == [s2 EXCEPT !.representatives = PushVotes(@, result.votes, proposal.id, s.turn)]
       IN [state |-> s3, value |-> Present(result)]

\* proposePolicy without the game-over guard
proposePolicyMut(s, proposal) == proposePolicyBody(s, proposal)

\* proposePolicy applying the policy in Political mode whatever the vote
proposePolicyUnconditionalMut(s, proposal) ==
  IF s.gameOver THEN [state |-> s, value |-> Absent]
  ELSE IF s.mode = "sandbox" THEN proposePolicyBody(s, proposal)
  ELSE LET result == conductVote(proposal, s.representatives, s.districts)
           s1 == [s EXCEPT !.lastVoteResult = Present(result)]
           s2 == applyPolicy(s1, proposal)
           s3 == [s2 EXCEPT !.representatives = PushVotes(@, result.votes, proposal.id, s.turn)]
       IN [state |-> s3, value |-> Present(result)]

\* proposePolicy conducting the vote of the council in Sandbox mode too
proposePolicyVotingMut(s, proposal) ==
  IF s.gameOver THEN [state |-> s, value |-> Absent]
  ELSE LET result == conductVote(proposal, s.representatives, s.districts)
           s1 == [s EXCEPT !.lastVoteResult = Present(result)]
           s2 == IF result.passed THEN applyPolicy(s1, proposal) ELSE s1
           s3 == [s2 EXCEPT !.representatives = PushVotes(@, result.votes, proposal.id, s.turn)]
       IN [state |-> s3, value |-> Present(result)]

\* returns the state after the call and the returned value
proposePolicy(s, proposal) ==
  IF s.gameOver THEN [state |-> s, value |-> Absent] ELSE proposePolicyBody(s, proposal)

\* steps 5 to 8 of tick with the approval update reading the district
\* happiness of the previous turn
tickFinishStaleApprovalMut(s, tr, tt, ec) ==
    LET t == s.turn + 1
        m5 == [ec.metrics EXCEPT !.congestionIndex = calculateCityCongestion(tr.roadNetwork)]
        reps6 == updateApproval(s.representatives, s.districts)
        runs == s.mode = "political" /\ s.electionInterval > 0
                  /\ t % s.electionInterval = 0 /\ t > 0
        el == runElection(reps6, ec.districts, t)
        s7 == [s EXCEPT !.turn = t, !.districts = ec.districts, !.metrics = m5,
                        !.roadNetwork = tr.roadNetwork, !.transitLines = tt.transitLines,
                        !.budget = ec.budget, !.activeEffects = ec.activeEffects,
                        !.representatives = IF runs THEN el.representatives ELSE reps6,
                        !.electionLog = IF runs THEN Append(@, el.result) ELSE @]
        go == checkGameOver(s7)
        s8 == [s7 EXCEPT !.gameOver = go.gameOver, !.gameOverReason = go.gameOverReason]
    IN [state |-> s8,
        result |->
          [op |-> "tick", turn |-> t, metricsBefor |-> s.metrics, metricsAfter |-> m5,
           districtChanges |-> [i \in 1..Len(s8.districts) |->
              [districtId |-> s8.districts[i].id,
               metricsBefore |-> s.districts[i].metrics,
               metricsAfter |-> s8.districts[i].metrics]],
           populationMoves |-> ec.moves,
           events |-> tt.events \o ec.events \o (IF runs THEN el.events ELSE <<>>) \o go.events,
           election |-> IF runs THEN Present(el.result) ELSE Absent,
           voteResult |-> s.lastVoteResult]]

\* steps 5 to 8 of tick and its return statement, from the results of the
\* four system ticks
tickFinish(s, tr, tt, ec) ==
    LET t == s.turn + 1
        metricsBefore == s.metrics
        districtsBefore == s.districts
        m5 == [ec.metrics EXCEPT !.congestionIndex = calculateCityCongestion(tr.roadNetwork)]
        reps6 == updateApproval(s.representatives, ec.districts)
        runs == s.mode = "political" /\ s.electionInterval > 0
                  /\ t % s.electionInterval = 0 /\ t > 0
        el == runElection(reps6, ec.districts, t)
        s7 == [s EXCEPT !.turn = t, !.districts = ec.districts, !.metrics = m5,
                        !.roadNetwork = tr.roadNetwork, !.transitLines = tt.transitLines,
                        !.budget = ec.budget, !.activeEffects = ec.activeEffects,
                        !.representatives = IF runs THEN el.representatives ELSE reps6,
                        !.electionLog = IF runs THEN Append(@, el.result) ELSE @]
        go == checkGameOver(s7)
        s8 == [s7 EXCEPT !.gameOver = go.gameOver, !.gameOverReason = go.gameOverReason]
        allEvents == tt.events \o ec.events \o (IF runs THEN el.events ELSE <<>>) \o go.events
    IN [state |-> s8,
        result |->
          [op |-> "tick", turn |-> t, metricsBefor |-> metricsBefore, metricsAfter |-> m5,
           districtChanges |-> [i \in 1..Len(s8.districts) |->
              [districtId |-> s8.districts[i].id,
               metricsBefore |-> districtsBefore[i].metrics,
               metricsAfter |-> s8.districts[i].metrics]],
           populationMoves |-> ec.moves, events |-> allEvents,
           election |-> IF runs THEN Present(el.result) ELSE Absent,
           voteResult |-> s.lastVoteResult]]

\* step 4 of tick (economy) and what follows
tickFromEconomy(s, tr, tt) ==
  tickFinish(s, tr, tt, tickEconomy(tt.districts, tt.metrics, s.budget, s.activeEffects))

\* step 3 of tick (transit) and what follows
tickFromTransit(s, z, tr) ==
  tickFromEconomy(s, tr, tickTransit(tr.districts, s.transitLines, z.metrics))

\* step 2 of tick (traffic) and what follows
tickFromTraffic(s, z) ==
  tickFromTransit(s, z, tickTraffic(z.districts, s.roadNetwork, s.transitLines))

\* the statements of tick after its game-over guard: returns the state after
\* the turn and the TurnResult
tickBody(s) ==
  tickFromTraffic(s, tickZoning(s.districts, s.metrics, DEFAULT_BASE_RENT,
                                DEFAULT_MEDIAN_INCOME))

\* tick without the game-over guard
tickMut(s) == tickBody(s)

\* tick without the increment of the turn counter
tickSameTurnMut(s) ==
  IF s.gameOver THEN [state |-> s, result |-> emptyTurnResult(s)]
  ELSE LET r == tickBody(s)
       IN [r EXCEPT !.state.turn = s.turn, !.result.turn = s.turn]

\* tick running an election at the end of every turn of a political game
tickElectionEveryTurnMut(s) ==
  IF s.gameOver THEN [state |-> s, result |-> emptyTurnResult(s)]
  ELSE LET r == tickBody(s)
           el == runElection(r.state.representatives, r.state.districts, r.state.turn)
       IN IF s.mode = "political" /\ r.result.election = Absent
          THEN [r EXCEPT !.state.representatives = el.representatives,
                         !.state.electionLog = Append(@, el.result),
                         !.result.election = Present(el.result),
                         !.result.events = @ \o el.events]
          ELSE r

\* tick keeping the population-weighted congestion written by the economy
\* phase instead of the mean over the road segments
tickEconomyCongestionMut(s) ==
  IF s.gameOver THEN [state |-> s, result |-> emptyTurnResult(s)]
  ELSE LET r == tickBody(s)
           ds == r.state.districts
           totalPop == SumSeq([i \in 1..Len(ds) |-> ds[i].population])
           c == IF totalPop = 0 THEN r.state.metrics.congestionIndex
                ELSE SumSeq([i \in 1..Len(ds) |->
                               ds[i].metrics.trafficCongestion * ds[i].population]) \div totalPop
       IN [r EXCEPT !.state.metrics.congestionIndex = c,
                    !.result.metricsAfter.congestionIndex = c]

\* returns the state after the call and the TurnResult
tick(s) ==
  IF s.gameOver THEN [state |-> s, result |-> emptyTurnResult(s)] ELSE tickBody(s)

\* applySandboxControls without the test of the mode
applySandboxControlsMut(s, controls) ==
  [s EXCEPT
     !.districts = [i \in 1..Len(s.districts) |->
        [s.districts[i] EXCEPT
           !.maxDensity = (s.districts[i].maxDensity * controls.densityMultiplier) \div 1000,
           !.parkingMinimum = controls.parkingMinimum]],
     !.roadNetwork.capacities =
        [k \in DOMAIN s.roadNetwork.capacities |->
           (s.roadNetwork.capacities[k] * controls.roadCapacity) \div 1000],
     !.budget.taxRate = controls.taxRate,
     !.budget.transitSubsidy = controls.transitSubsidy]

\* applySandboxControls writing the congestion of the scaled capacities into
\* the city metrics at once
applySandboxControlsRecomputeMut(s, controls) ==
  IF s.mode # "sandbox" THEN s
  ELSE [s EXCEPT
          !.districts = [i \in 1..Len(s.districts) |->
             [s.districts[i] EXCEPT
                !.maxDensity = (s.districts[i].maxDensity * controls.densityMultiplier) \div 1000,
                !.parkingMinimum = controls.parkingMinimum]],
          !.roadNetwork.capacities =
             [k \in DOMAIN s.roadNetwork.capacities |->
                (s.roadNetwork.capacities[k] * controls.roadCapacity) \div 1000],
          !.budget.taxRate = controls.taxRate,
          !.budget.transitSubsidy = controls.transitSubsidy,
          !.metrics.congestionIndex =
             calculateCityCongestion(
               [s.roadNetwork EXCEPT
                  !.capacities = [k \in DOMAIN s.roadNetwork.capacities |->
                     (s.roadNetwork.capacities[k] * controls.roadCapacity) \div 1000]])]

applySandboxControls(s, controls) ==
  IF s.mode # "sandbox" THEN s
  ELSE [s EXCEPT
          !.districts = [i \in 1..Len(s.districts) |->
             [s.districts[i] EXCEPT
                !.maxDensity = (s.districts[i].maxDensity * controls.densityMultiplier) \div 1000,
                !.parkingMinimum = controls.parkingMinimum]],
          !.roadNetwork.capacities =
             [k \in DOMAIN s.roadNetwork.capacities |->
                (s.roadNetwork.capacities[k] * controls.roadCapacity) \div 1000],
          !.budget.taxRate = controls.taxRate,
          !.budget.transitSubsidy = controls.transitSubsidy]

\* ------------------------------------------------------------------------
\* City configurations (createDistrict, createRepresentative, buildRoadNetwork,
\* createTransitLine) and the inputs of the engine's operations
\* ------------------------------------------------------------------------
NoZones == [z \in Range(ZoneTypes) |-> 0]

defaultMetrics ==
  [averageCommuteMinutes |-> 30000, averageRent |-> 1500, rentBurden |-> 350,
   jobAccessScore |-> 500, trafficCongestion |-> 500, publicServiceSatisfaction |-> 500,
   happiness |-> 500, propertyValue |-> 1000, crimeRate |-> 200, greenSpaceAccess |-> 400]

createDistrict(id, population, area, maxDensity, zones, adjacentDistricts) ==
  [id |-> id, population |-> population, area |-> area,
   zones |-> MergeZones(NoZones, zones), maxDensity |-> maxDensity,
   currentDensity |-> IF area > 0 THEN population \div area ELSE 0,
   metrics |-> defaultMetrics, adjacentDistricts |-> adjacentDistricts,
   hasTransitStation |-> FALSE, transitLines |-> <<>>, parkingMinimum |-> 1]

createRepresentative(n, districtId, leaning, priorities) ==
  [id |-> <<"rep", n>>, districtId |-> districtId, leaning |-> leaning,
   approvalRating |-> 550, reElectionRisk |-> 250, priorities |-> priorities,
   voteHistory |-> <<>>, termNumber |-> 1]

\* one segment per unordered adjacent pair, load 0
buildRoadNetwork(ds, capacity) ==
  LET keys == UNION {{roadKey(ds[i].id, ds[i].adjacentDistricts[k]) :
                        k \in 1..Len(ds[i].adjacentDistricts)} : i \in 1..Len(ds)}
  IN [capacities |-> [k \in keys |-> capacity], loads |-> [k \in keys |-> 0]]

createTransitLine(id, type, lineDistricts, capacity, operational) ==
  [id |-> id, type |-> type, districts |-> lineDistricts, capacity |-> capacity,
   ridership |-> IF operational THEN (capacity * 4) \div 10 ELSE 0,
   operatingCost |-> IF type = "rail" THEN capacity \div 2 ELSE (capacity * 15) \div 100,
   constructionTurnsRemaining |-> IF operational THEN 0 ELSE IF type = "rail" THEN 6 ELSE 2,
   propertyValueBoost |-> IF type = "rail" THEN 1000 ELSE 300]

\* a three-district city: a centre (1) adjacent to an inner district (2) and a
\* suburb (3)
CityDistricts ==
  <<[createDistrict(1, 6000, 2, 8000,
                    [mid_density_residential |-> 400, commercial |-> 200, mixed_use |-> 200,
                     low_density_residential |-> 100, park |-> 100], <<2, 3>>)
       EXCEPT !.metrics.trafficCongestion = 700, !.metrics.rentBurden = 500,
              !.metrics.publicServiceSatisfaction = 900, !.metrics.greenSpaceAccess = 900],
    createDistrict(2, 3000, 1, 8000,
                   [high_density_residential |-> 500, commercial |-> 300, park |-> 200], <<1>>),
    [createDistrict(3, 800, 2, 3000, [low_density_residential |-> 1000], <<1>>)
       EXCEPT !.metrics.publicServiceSatisfaction = 100, !.metrics.greenSpaceAccess = 100]>>

CityRepresentatives ==
  <<createRepresentative(1, 1, "yimby", <<"zoning", "housing", "transit">>),
    createRepresentative(2, 2, "conservative", <<"budget", "infrastructure", "taxation">>),
    [createRepresentative(3, 3, "nimby", <<"zoning", "budget", "infrastructure">>)
       EXCEPT !.approvalRating = 400, !.reElectionRisk = 500]>>

CityTransitLines ==
  <<createTransitLine(1, "bus", <<1, 2>>, 400, TRUE),
    createTransitLine(2, "bus", <<1, 3>>, 200, FALSE)>>

InitialMetrics ==
  [totalPopulation |-> 9800, averageCommute |-> 35000, averageRent |-> 1500,
   overallHappiness |-> 500, congestionIndex |-> 500, transitRidership |-> 160,
   budgetHealth |-> 500, housingSupply |-> 6000, housingDemand |-> 5000,
   jobsTotal |-> 9000, economicOutput |-> 10000]

InitialBudgets ==
  {[balance |-> bal, incomePerTurn |-> 200, expensesPerTurn |-> 180, taxRate |-> 130,
    transitSubsidy |-> 400] : bal \in {800, -9800}}

GoalSets ==
  {<<>>,
   <<[metric |-> "totalPopulation", target |-> 9838, comparison |-> "above"],
     [metric |-> "congestionIndex", target |-> 600, comparison |-> "below"]>>}

Modes == {"political", "sandbox"}

\* PolicyEffect templates
DistrictTarget(id) == [type |-> "district", districtId |-> id, districtIds |-> <<>>]

DistrictsTarget(ids) == [type |-> "districts", districtId |-> 0, districtIds |-> ids]

CityTarget == [type |-> "city", districtId |-> 0, districtIds |-> <<>>]

AdjacentTarget(id) == [type |-> "adjacent", districtId |-> id, districtIds |-> <<>>]

Effect(target, metric, delta, delay, duration) ==
  [target |-> target, metric |-> metric, delta |-> delta, delay |-> delay,
   duration |-> duration]

AllDistricts == [all |-> TRUE, ids |-> <<>>]

OnlyDistricts(ids) == [all |-> FALSE, ids |-> ids]

\* the proposals the caller may submit
Proposals ==
  {[id |-> "road_expansion", category |-> "infrastructure",
    voteRequirement |-> "simple_majority", cost |-> 800, politicalCost |-> 300,
    targetDistricts |-> OnlyDistricts(<<1>>),
    effects |-> <<Effect(DistrictTarget(1), "trafficCongestion", -150, 1, 2)>>],
   [id |-> "policing", category |-> "budget",
    voteRequirement |-> "executive_order", cost |-> 0, politicalCost |-> 200,
    targetDistricts |-> AllDistricts,
    effects |-> <<Effect(AdjacentTarget(1), "crimeRate", -300, 1, 0)>>],
   [id |-> "rail_line", category |-> "transit",
    voteRequirement |-> "super_majority", cost |-> 2000, politicalCost |-> 700,
    targetDistricts |-> OnlyDistricts(<<2, 3>>),
    effects |-> <<Effect(DistrictsTarget(<<2, 3>>), "happiness", 50, 0, 1),
                  Effect(CityTarget, "congestionIndex", -50, 2, 0)>>],
   [id |-> "tax_increase", category |-> "taxation",
    voteRequirement |-> "referendum", cost |-> -150, politicalCost |-> 800,
    targetDistricts |-> AllDistricts,
    effects |-> <<Effect(CityTarget, "overallHappiness", -50, 0, 3)>>]}

\* the SandboxControls the caller may apply
Controls ==
  {[densityMultiplier |-> 2000, parkingMinimum |-> 0, roadCapacity |-> 480,
    taxRate |-> 200, transitSubsidy |-> 500],
   [densityMultiplier |-> 500, parkingMinimum |-> 2, roadCapacity |-> 2000,
    taxRate |-> 100, transitSubsidy |-> 0]}

\* ------------------------------------------------------------------------
\* Bounds of the model
\* ------------------------------------------------------------------------
MaxTurn == 4

MaxPolicies == 2

MaxVotes == 2

MaxDensityCap == 16000

MinDensityCap == 4000

MaxElections == 2

MaxElectionTurn == 11

\* ------------------------------------------------------------------------
\* The state machine
\* ------------------------------------------------------------------------
\* new SimulationEngine(cityConfig, mode)
Init ==
  /\ mode \in Modes
  /\ budget \in InitialBudgets
  /\ scenarioGoals \in GoalSets
  /\ districts = CityDistricts
  /\ roadNetwork = initializeRoadLoads(buildRoadNetwork(CityDistricts, 150), CityDistricts)
  /\ transitLines = CityTransitLines
  /\ representatives = CityRepresentatives
  /\ electionInterval = 2
  /\ turn = 0
  /\ metrics = InitialMetrics
  /\ activeEffects = <<>>
  /\ policyHistory = <<>>
  /\ electionLog = <<>>
  /\ lastVoteResult = Absent
  /\ gameOver = FALSE
  /\ gameOverReason = ""
  /\ ret = [op |-> "new"]

SetState(s) ==
  /\ districts' = s.districts
  /\ roadNetwork' = s.roadNetwork
  /\ transitLines' = s.transitLines
  /\ budget' = s.budget
  /\ representatives' = s.representatives
  /\ scenarioGoals' = s.scenarioGoals
  /\ electionInterval' = s.electionInterval
  /\ turn' = s.turn
  /\ mode' = s.mode
  /\ metrics' = s.metrics
  /\ activeEffects' = s.activeEffects
  /\ policyHistory' = s.policyHistory
  /\ electionLog' = s.electionLog
  /\ lastVoteResult' = s.lastVoteResult
  /\ gameOver' = s.gameOver
  /\ gameOverReason' = s.gameOverReason

\* engine.tick()
Tick ==
  /\ gameOver \/ turn < MaxTurn
  /\ \E r \in {tick(State)} : SetState(r.state) /\ ret' = r.result

\* engine.proposePolicy(proposal)
ProposePolicy(proposal) ==
  /\ \/ gameOver
     \/ /\ Len(policyHistory) < MaxPolicies
        /\ \A i \in 1..Len(representatives) : Len(representatives[i].voteHistory) < MaxVotes
  /\ \E r \in {proposePolicy(State, proposal)} :
       SetState(r.state) /\ ret' = [op |-> "proposePolicy", value |-> r.value]

\* engine.applySandboxControls(controls)
ApplySandboxControls(controls) ==
  /\ \E s \in {applySandboxControls(State, controls)} :
       /\ mode = "sandbox" =>
            \A i \in 1..Len(s.districts) :
               s.districts[i].maxDensity \in MinDensityCap..MaxDensityCap
       /\ SetState(s)
       /\ ret' = [op |-> "applySandboxControls"]

Next ==
  \/ Tick
  \/ \E proposal \in Proposals : ProposePolicy(proposal)
  \/ \E controls \in Controls : ApplySandboxControls(controls)

Spec == Init /\ [][Next]_vars

\* ------------------------------------------------------------------------
\* applyZoningChange called directly on the districts of the city
\* ------------------------------------------------------------------------
\* the Partial<ZoneAllocation> arguments, in tenths of a percent
ZoningChanges ==
  {[commercial |-> 300],
   [park |-> 101],
   [park |-> 99],
   [park |-> 102],
   [low_density_residential |-> 500, park |-> 500],
   [low_density_residential |-> 0, mid_density_residential |-> 0,
    high_density_residential |-> 600, mixed_use |-> 0, commercial |-> 200,
    industrial |-> 0, transit_oriented |-> 0, park |-> 200],
   [low_density_residential |-> 1000, mid_density_residential |-> 0,
    high_density_residential |-> 0, mixed_use |-> 0, commercial |-> 0,
    industrial |-> 0, transit_oriented |-> 0, park |-> 0]}

InitZoning ==
  /\ mode = "sandbox"
  /\ budget = [balance |-> 800, incomePerTurn |-> 200, expensesPerTurn |-> 180, taxRate |-> 130,
              transitSubsidy |-> 400]
  /\ scenarioGoals = <<>>
  /\ districts = CityDistricts
  /\ roadNetwork = initializeRoadLoads(buildRoadNetwork(CityDistricts, 150), CityDistricts)
  /\ transitLines = CityTransitLines
  /\ representatives = CityRepresentatives
  /\ electionInterval = 2
  /\ turn = 0
  /\ metrics = InitialMetrics
  /\ activeEffects = <<>>
  /\ policyHistory = <<>>
  /\ electionLog = <<>>
  /\ lastVoteResult = Absent
  /\ gameOver = FALSE
  /\ gameOverReason = ""
  /\ ret = [op |-> "new"]

\* applyZoningChange(districts[i], newZones)
ApplyZoningChange(i, newZones) ==
  \E r \in {applyZoningChange(districts[i], newZones)} :
     /\ districts' = [districts EXCEPT ![i] = r.district]
     /\ ret' = [op |-> "applyZoningChange", district |-> i, newZones |-> newZones,
                result |-> r.result]
     /\ UNCHANGED <<roadNetwork, transitLines, budget, representatives, scenarioGoals,
                    electionInterval, turn, mode, metrics, activeEffects, policyHistory,
                    electionLog, lastVoteResult, gameOver, gameOverReason>>

NextZoning ==
  \E i \in 1..Len(districts) : \E newZones \in ZoningChanges : ApplyZoningChange(i, newZones)

SpecZoning == InitZoning /\ [][NextZoning]_vars

\* ------------------------------------------------------------------------
\* conductVote called directly on councils of the city
\* ------------------------------------------------------------------------
VoteLeanings == {"yimby", "nimby", "conservative"}

\* councils: one representative per district with every combination of
\* leanings, an empty council, and councils with seats of unknown districts
Councils ==
  {<<createRepresentative(1, 1, l1, <<"zoning", "housing", "transit">>),
     createRepresentative(2, 2, l2, <<"budget", "infrastructure", "taxation">>),
     createRepresentative(3, 3, l3, <<"zoning", "budget", "infrastructure">>)>> :
     l1 \in VoteLeanings, l2 \in VoteLeanings, l3 \in VoteLeanings}
  \cup {<<>>,
        <<createRepresentative(1, 9, "yimby", <<"zoning", "housing", "transit">>)>>,
        <<createRepresentative(1, 1, "nimby", <<"zoning", "budget", "infrastructure">>),
          createRepresentative(2, 9, "yimby", <<"zoning", "housing", "transit">>)>>,
        <<createRepresentative(1, 3, "yimby", <<"zoning", "housing", "transit">>),
          createRepresentative(2, 2, "nimby", <<"zoning", "budget", "infrastructure">>)>>}

VoteProposals ==
  {[id |-> "bill", category |-> cat, voteRequirement |-> req, cost |-> cost,
    politicalCost |-> 700, targetDistricts |-> AllDistricts,
    effects |-> <<Effect(CityTarget, "overallHappiness", 20, 1, 2),
                  Effect(DistrictTarget(1), "happiness", 30, 0, 0)>>] :
     cat \in {"zoning", "taxation", "transit"},
     req \in {"simple_majority", "super_majority", "executive_order", "referendum"},
     cost \in {0, 4000}}

InitVote ==
  /\ mode = "political"
  /\ budget = [balance |-> 800, incomePerTurn |-> 200, expensesPerTurn |-> 180, taxRate |-> 130,
              transitSubsidy |-> 400]
  /\ scenarioGoals = <<>>
  /\ districts = CityDistricts
  /\ roadNetwork = initializeRoadLoads(buildRoadNetwork(CityDistricts, 150), CityDistricts)
  /\ transitLines = CityTransitLines
  /\ representatives \in Councils
  /\ electionInterval = 2
  /\ turn = 0
  /\ metrics = InitialMetrics
  /\ activeEffects = <<>>
  /\ policyHistory = <<>>
  /\ electionLog = <<>>
  /\ lastVoteResult = Absent
  /\ gameOver = FALSE
  /\ gameOverReason = ""
  /\ ret = [op |-> "new"]

\* conductVote(proposal, representatives, districts)
ConductVote(proposal) ==
  /\ ret' = [op |-> "conductVote", proposal |-> proposal,
             value |-> conductVote(proposal, representatives, districts)]
  /\ UNCHANGED <<districts, roadNetwork, transitLines, budget, representatives,
                 scenarioGoals, electionInterval, turn, mode, metrics, activeEffects,
                 policyHistory, electionLog, lastVoteResult, gameOver, gameOverReason>>

NextVote == \E proposal \in VoteProposals : ConductVote(proposal)

SpecVote == InitVote /\ [][NextVote]_vars

\* conductVote, and the first proposePolicy of the engine in Political mode,
\* on the same councils
NextCouncil ==
  \E proposal \in VoteProposals :
     \/ ConductVote(proposal)
     \/ /\ policyHistory = <<>>
        /\ \A i \in 1..Len(representatives) : representatives[i].voteHistory = <<>>
        /\ ProposePolicy(proposal)

SpecCouncil == InitVote /\ [][NextCouncil]_vars

\* ------------------------------------------------------------------------
\* simulateMigration called directly on a city with one central district
\* ------------------------------------------------------------------------
\* the centre (1), of capacity 16000, adjacent to n suburbs (2..n+1) that are
\* adjacent to it alone; the centre is the attractive district
HubDistricts(n, hubPopulation) ==
  <<[createDistrict(1, hubPopulation, 2, 8000,
                    [mid_density_residential |-> 400, commercial |-> 200, mixed_use |-> 200,
                     low_density_residential |-> 100, park |-> 100], [k \in 1..n |-> k + 1])
       EXCEPT !.metrics.happiness = 900, !.metrics.rentBurden = 200,
              !.metrics.jobAccessScore = 800]>>
  \o [k \in 1..n |->
        [createDistrict(k + 1, 800, 2, 3000, [low_density_residential |-> 1000], <<1>>)
           EXCEPT !.metrics.happiness = 200, !.metrics.rentBurden = 600,
                  !.metrics.jobAccessScore = 300]]

HubSizes == {2, 10, 11}

HubPopulations == {15000, 15500, 15900, 15950, 15980, 15990, 15995, 16000, 16100}

InitHub ==
  /\ mode = "sandbox"
  /\ budget = [balance |-> 800, incomePerTurn |-> 200, expensesPerTurn |-> 180, taxRate |-> 130,
              transitSubsidy |-> 400]
  /\ scenarioGoals = <<>>
  /\ \E n \in HubSizes : \E hubPopulation \in HubPopulations :
       /\ districts = HubDistricts(n, hubPopulation)
       /\ roadNetwork = buildRoadNetwork(HubDistricts(n, hubPopulation), 150)
       /\ metrics = [InitialMetrics EXCEPT !.totalPopulation = hubPopulation + 800 * n]
  /\ transitLines = <<>>
  /\ representatives = <<>>
  /\ electionInterval = 2
  /\ turn = 0
  /\ activeEffects = <<>>
  /\ policyHistory = <<>>
  /\ electionLog = <<>>
  /\ lastVoteResult = Absent
  /\ gameOver = FALSE
  /\ gameOverReason = ""
  /\ ret = [op |-> "new"]

\* simulateMigration(districts)
SimulateMigration ==
  \E r \in {simulateMigration(districts)} :
     /\ districts' = r.districts
     /\ ret' = [op |-> "simulateMigration", moves |-> r.moves]
     /\ UNCHANGED <<roadNetwork, transitLines, budget, representatives, scenarioGoals,
                    electionInterval, turn, mode, metrics, activeEffects, policyHistory,
                    electionLog, lastVoteResult, gameOver, gameOverReason>>

NextHub == SimulateMigration

SpecHub == InitHub /\ [][NextHub]_vars

\* ------------------------------------------------------------------------
\* runElection called directly on councils whose approvals and re-election
\* risks cover both sides of each test of the election
\* ------------------------------------------------------------------------
\* three seats: the first with every combination of approval and risk, the
\* second below or above the approval threshold, the third certain to lose
\* the draw, in a district of the city or in an unknown district
ElectionCouncils ==
  {<<[createRepresentative(1, 1, "yimby", <<"zoning", "housing", "transit">>)
        EXCEPT !.approvalRating = a1, !.reElectionRisk = r1],
     [createRepresentative(2, 2, "conservative", <<"budget", "infrastructure", "taxation">>)
        EXCEPT !.approvalRating = a2, !.reElectionRisk = 700 - a2 \div 2],
     [createRepresentative(3, d3, "nimby", <<"zoning", "budget", "infrastructure">>)
        EXCEPT !.approvalRating = 400, !.reElectionRisk = 1000]>> :
     a1 \in {300, 499, 500, 700}, r1 \in {200, 500, 800}, a2 \in {450, 550}, d3 \in {3, 9}}

InitElection ==
  /\ mode = "political"
  /\ budget = [balance |-> 800, incomePerTurn |-> 200, expensesPerTurn |-> 180, taxRate |-> 130,
              transitSubsidy |-> 400]
  /\ scenarioGoals = <<>>
  /\ districts = CityDistricts
  /\ roadNetwork = initializeRoadLoads(buildRoadNetwork(CityDistricts, 150), CityDistricts)
  /\ transitLines = CityTransitLines
  /\ representatives \in ElectionCouncils
  /\ electionInterval = 2
  /\ turn = 0
  /\ metrics = InitialMetrics
  /\ activeEffects = <<>>
  /\ policyHistory = <<>>
  /\ electionLog = <<>>
  /\ lastVoteResult = Absent
  /\ gameOver = FALSE
  /\ gameOverReason = ""
  /\ ret = [op |-> "new"]

\* runElection(representatives, districts, t), the result pushed to the log as
\* the engine does
RunElection(t) ==
  /\ Len(electionLog) < MaxElections
  /\ \E r \in {runElection(representatives, districts, t)} :
       /\ representatives' = r.representatives
       /\ electionLog' = Append(electionLog, r.result)
       /\ ret' = [op |-> "runElection", result |-> r.result, events |-> r.events]
  /\ UNCHANGED <<districts, roadNetwork, transitLines, budget, scenarioGoals,
                 electionInterval, turn, mode, metrics, activeEffects, policyHistory,
                 lastVoteResult, gameOver, gameOverReason>>

NextElection == \E t \in 1..MaxElectionTurn : RunElection(t)

SpecElection == InitElection /\ [][NextElection]_vars

\* ------------------------------------------------------------------------
\* The engine on a council with a seat of an unknown district and on
\* policies whose effects name unknown districts or metrics
\* ------------------------------------------------------------------------
\* the council of the city and a fourth representative whose district is not
\* in the city, whom an election would unseat
LookupRepresentatives ==
  CityRepresentatives \o
    <<[createRepresentative(4, 9, "yimby", <<"zoning", "housing", "transit">>)
         EXCEPT !.approvalRating = 300, !.reElectionRisk = 1000]>>

\* executive orders: one whose effects all miss their target (unknown
\* district, unknown source of an adjacent scope, unknown metric of a district
\* and of the city), and two with effects on districts of the city, by the
\* district, districts and adjacent scopes
LookupProposals ==
  {[id |-> "lost_district", category |-> "budget",
    voteRequirement |-> "executive_order", cost |-> 0, politicalCost |-> 200,
    targetDistricts |-> AllDistricts,
    effects |-> <<Effect(DistrictTarget(9), "crimeRate", -100, 0, 2),
                  Effect(AdjacentTarget(9), "crimeRate", -100, 1, 1)>>],
   [id |-> "lost_metric", category |-> "budget",
    voteRequirement |-> "executive_order", cost |-> 0, politicalCost |-> 200,
    targetDistricts |-> AllDistricts,
    effects |-> <<Effect(DistrictTarget(1), "noise", 100, 0, 1),
                  Effect(DistrictsTarget(<<2, 9>>), "noise", 100, 1, 0),
                  Effect(CityTarget, "noise", 100, 0, 2)>>],
   [id |-> "safety", category |-> "budget",
    voteRequirement |-> "executive_order", cost |-> 0, politicalCost |-> 200,
    targetDistricts |-> AllDistricts,
    effects |-> <<Effect(DistrictTarget(2), "crimeRate", -10, 0, 2)>>],
   [id |-> "patrols", category |-> "budget",
    voteRequirement |-> "executive_order", cost |-> 0, politicalCost |-> 200,
    targetDistricts |-> AllDistricts,
    effects |-> <<Effect(AdjacentTarget(1), "crimeRate", -30, 0, 2),
                  Effect(DistrictsTarget(<<1, 3>>), "crimeRate", -20, 1, 0)>>]}

InitLookup ==
  /\ mode = "political"
  /\ budget = [balance |-> 800, incomePerTurn |-> 200, expensesPerTurn |-> 180, taxRate |-> 130,
              transitSubsidy |-> 400]
  /\ scenarioGoals = <<>>
  /\ districts = CityDistricts
  /\ roadNetwork = initializeRoadLoads(buildRoadNetwork(CityDistricts, 150), CityDistricts)
  /\ transitLines = CityTransitLines
  /\ representatives = LookupRepresentatives
  /\ electionInterval = 2
  /\ turn = 0
  /\ metrics = InitialMetrics
  /\ activeEffects = <<>>
  /\ policyHistory = <<>>
  /\ electionLog = <<>>
  /\ lastVoteResult = Absent
  /\ gameOver = FALSE
  /\ gameOverReason = ""
  /\ ret = [op |-> "new"]

NextLookup ==
  \/ Tick
  \/ \E proposal \in LookupProposals : ProposePolicy(proposal)

SpecLookup == InitLookup /\ [][NextLookup]_vars

\* ------------------------------------------------------------------------
\* Properties of the terminal state
\* ------------------------------------------------------------------------
\* C1: once the game is over, every tick returns a result with exactly one
\* event, of type crisis, with empty districtChanges and populationMoves, and
\* leaves the turn counter and the city metrics unchanged.
C1_TerminalTickIsSentinel ==
  [][(gameOver /\ Tick) =>
       /\ gameOver'
       /\ Len(ret'.events) = 1 /\ ret'.events[1].type = "crisis"
       /\ ret'.districtChanges = <<>>
       /\ ret'.populationMoves = <<>>
       /\ turn' = turn
       /\ metrics' = metrics]_vars

\* a tick has been called on a finished game that had run for at least a turn
C1_Witness ==
  /\ gameOver /\ turn > 0
  /\ ret.op = "tick"
  /\ ret.districtChanges = <<>>
  /\ Len(ret.events) = 1 /\ ret.events[1].message = "Game is over."

\* C2: once the game is over, proposePolicy returns null in sandbox and in
\* political mode, and changes neither the budget, the active effects, the
\* policy history, the last vote result nor any representative.
C2_TerminalProposalIsNull ==
  [][(gameOver /\ \E proposal \in Proposals : ProposePolicy(proposal)) =>
       /\ ret'.value = Absent
       /\ UNCHANGED <<budget, activeEffects, policyHistory, lastVoteResult, representatives,
                      districts, metrics, turn, gameOver, gameOverReason>>]_vars

\* a proposal has been refused on a finished game in political mode, where it
\* would otherwise have gone to a vote
C2_Witness ==
  /\ gameOver
  /\ mode = "political"
  /\ ret.op = "proposePolicy"
  /\ ret.value = Absent

\* C3: once the game is over, no call of tick, proposePolicy or
\* applySandboxControls changes the districts, the road network, the transit
\* lines, the budget, the representatives, the active effects, the metrics or
\* the turn counter.
C3_TerminalStateFrozen ==
  [][gameOver =>
       UNCHANGED <<districts, roadNetwork, transitLines, budget, representatives,
                   activeEffects, metrics, turn>>]_vars

\* C4: at the end of a tick that began with the game running, the game is
\* over exactly when the balance is below the bankruptcy threshold or the goal
\* list is non-empty and every goal is met by the end-of-tick metrics;
\* bankruptcy wins when both hold, each outcome sets its reason and pushes its
\* event last, and a city without goals never ends in success.
C4_GameOverAtEndOfTick ==
  [][(~gameOver /\ Tick) =>
       LET bankrupt == budget'.balance < -10000
           goalsMet ==
             /\ Len(scenarioGoals) > 0
             /\ \A i \in 1..Len(scenarioGoals) :
                  LET g == scenarioGoals[i]
                  IN /\ g.comparison = "above" => metrics'[g.metric] >= g.target
                     /\ g.comparison = "below" => metrics'[g.metric] <= g.target
           last == ret'.events[Len(ret'.events)]
       IN /\ gameOver' <=> (bankrupt \/ goalsMet)
          /\ bankrupt =>
               /\ gameOverReason' = "City went bankrupt."
               /\ Len(ret'.events) > 0
               /\ last.type = "crisis" /\ last.severity = "critical"
          /\ (~bankrupt /\ goalsMet) =>
               /\ gameOverReason' = "All scenario goals achieved!"
               /\ Len(ret'.events) > 0
               /\ last.type = "milestone" /\ last.severity = "info"
          /\ scenarioGoals = <<>> => gameOverReason' # "All scenario goals achieved!"]_vars

\* a tick has ended the game with the balance below the threshold and every
\* goal met at once: the reason recorded is the bankruptcy
C4_Witness ==
  /\ gameOver
  /\ ret.op = "tick" /\ ret.districtChanges # <<>>
  /\ budget.balance < -10000
  /\ Len(scenarioGoals) > 0
  /\ \A i \in 1..Len(scenarioGoals) :
       IF scenarioGoals[i].comparison = "above"
       THEN metrics[scenarioGoals[i].metric] >= scenarioGoals[i].target
       ELSE metrics[scenarioGoals[i].metric] <= scenarioGoals[i].target
  /\ gameOverReason = "City went bankrupt."

\* ------------------------------------------------------------------------
\* Properties of the district metrics and populations
\* ------------------------------------------------------------------------
\* C5: every ratio metric of every district (rentBurden, jobAccessScore,
\* trafficCongestion, publicServiceSatisfaction, happiness, crimeRate,
\* greenSpaceAccess) stays within [0, 1].
C5_RatioMetricsInUnitInterval ==
  \A i \in 1..Len(districts) :
    \A k \in {"rentBurden", "jobAccessScore", "trafficCongestion",
              "publicServiceSatisfaction", "happiness", "crimeRate", "greenSpaceAccess"} :
      districts[i].metrics[k] \in 0..1000

C7_EffectLifetime ==
  LET Scheduled[n \in 0..Len(policyHistory)] ==
        IF n = 0 THEN <<>>
        ELSE Scheduled[n - 1] \o
               [i \in 1..Len(policyHistory[n].policy.effects) |->
                  [policyId |-> policyHistory[n].policy.id,
                   effect |-> policyHistory[n].policy.effects[i],
                   age |-> turn - policyHistory[n].turnPassed]]
      alive == SelectSeq(Scheduled[Len(policyHistory)],
                         LAMBDA e : \/ e.effect.duration = 0
                                    \/ e.age < e.effect.delay + e.effect.duration)
  IN /\ Len(activeEffects) = Len(alive)
     /\ \A i \in 1..Len(alive) :
          LET ae == activeEffects[i]
              e == alive[i]
              timesApplied == IF e.age > e.effect.delay THEN e.age - e.effect.delay ELSE 0
          IN /\ ae.policyId = e.policyId
             /\ ae.effect = e.effect
             /\ ae.applied = timesApplied
             /\ ae.turnsRemaining = IF e.effect.duration = 0 THEN -1
                                    ELSE e.effect.duration - timesApplied

\* the road expansion (delay 1, duration 2) has left the active list on the
\* third tick after it passed, while a permanent effect scheduled with it is
\* still held
C7_Witness ==
  /\ ret.op = "tick"
  /\ \E n \in 1..Len(policyHistory) :
       /\ policyHistory[n].policy.id = "road_expansion"
       /\ turn = policyHistory[n].turnPassed + 3
  /\ \A i \in 1..Len(activeEffects) : activeEffects[i].policyId # "road_expansion"
  /\ \E i \in 1..Len(activeEffects) :
       activeEffects[i].effect.duration = 0 /\ activeEffects[i].applied >= 2

\* C8: on a tick, an effect whose delay has not run out changes nothing but
\* its own turnsUntilActive, which decreases by one: the districts, metrics,
\* budget, roads, transit lines, representatives and game-over flag after the
\* tick are those of the same tick without the delayed effects.  Every effect
\* whose delay has run out is applied on that tick: the crime rate of a
\* district moves by the deltas of exactly those effects.
C8_DelayedEffectInert ==
  [][(~gameOver /\ Tick) =>
       LET delayed == SelectSeq(activeEffects, LAMBDA ae : ae.turnsUntilActive > 0)
           due == SelectSeq(activeEffects, LAMBDA ae : ae.turnsUntilActive = 0)
           without == tick([State EXCEPT !.activeEffects = due]).state
           crimeDelta(id) ==
             SumSeq([i \in 1..Len(due) |->
               IF /\ due[i].effect.metric = "crimeRate"
                  /\ due[i].effect.target.type = "adjacent"
                  /\ id \in Range(GetDistrict(districts, due[i].effect.target.districtId)
                                    .adjacentDistricts)
               THEN due[i].effect.delta \div 2 ELSE 0])
       IN /\ districts' = without.districts
          /\ metrics' = without.metrics
          /\ budget' = without.budget
          /\ roadNetwork' = without.roadNetwork
          /\ transitLines' = without.transitLines
          /\ representatives' = without.representatives
          /\ gameOver' = without.gameOver
          /\ SelectSeq(activeEffects', LAMBDA ae : ae.applied = 0)
               = [i \in 1..Len(delayed) |->
                    [delayed[i] EXCEPT !.turnsUntilActive = @ - 1]]
          /\ \A i \in 1..Len(delayed) : delayed[i].applied = 0
          /\ \A i \in 1..Len(districts) :
               districts'[i].metrics.crimeRate
                 = districts[i].metrics.crimeRate + crimeDelta(districts[i].id)]_vars

\* the policing effect (delay 1) was inert on the first tick after it passed
\* and has been applied on the second: the crime rate of the neighbours moved
\* once
C8_Witness ==
  /\ ret.op = "tick"
  /\ turn = 2
  /\ Len(policyHistory) = 1
  /\ policyHistory[1].policy.id = "policing" /\ policyHistory[1].turnPassed = 0
  /\ Len(activeEffects) = 1
  /\ activeEffects[1].turnsUntilActive = 0 /\ activeEffects[1].applied = 1
  /\ districts[2].metrics.crimeRate = 50

\* ------------------------------------------------------------------------
\* Properties of applyZoningChange and conductVote
\* ------------------------------------------------------------------------
\* C9: applyZoningChange succeeds exactly when the merged allocation sums to
\* 100 within 0.1; on success the zones of the district become the merged
\* allocation, on failure the result is {success: false, error} with an error
\* that names 100% and the zones are left as they were.
C9_ZoningChangeValidated ==
  [][\A i \in 1..Len(districts) : \A newZones \in ZoningChanges :
       ApplyZoningChange(i, newZones) =>
         LET merged == [z \in DOMAIN districts[i].zones |->
                          IF z \in DOMAIN newZones THEN newZones[z]
                          ELSE districts[i].zones[z]]
             total == SumSeq([k \in 1..Len(ZoneTypes) |-> merged[ZoneTypes[k]]])
             ok == total >= 999 /\ total <= 1001
         IN /\ ret'.result.success = ok
            /\ ok => districts'[i].zones = merged /\ ret'.result.error = ""
            /\ ~ok => /\ districts' = districts
                      /\ ret'.result.error = "Zone allocations must sum to 100%"]_vars

\* a change has been accepted at the edge of the tolerance: the zones of the
\* district now sum to 100.1
C9_Witness ==
  /\ ret.op = "applyZoningChange"
  /\ ret.result.success
  /\ ZoneTotal(districts[ret.district].zones) = 1001
  /\ \A z \in DOMAIN ret.newZones : districts[ret.district].zones[z] = ret.newZones[z]

\* C10: conductVote on a proposal that requires an executive order returns
\* passed = true whatever the council and whatever the tally.
C10_ExecutiveOrderPasses ==
  (ret.op = "conductVote" /\ ret.proposal.voteRequirement = "executive_order")
    => ret.value.passed

\* an executive order has passed although every one of the three
\* representatives voted no
C10_Witness ==
  /\ ret.op = "conductVote"
  /\ ret.proposal.voteRequirement = "executive_order"
  /\ Len(ret.value.votes) = 3
  /\ ret.value.votesFor = 0 /\ ret.value.votesAgainst = 3
  /\ ret.value.passed

\* C11: conductVote with SuperMajority passes exactly when the yes votes are
\* at least ceil(2/3 of the votes cast), that is when 3 * yes >= 2 * cast;
\* with 3 voters 2 or 3 yes votes pass and 0 or 1 fail.
C11_SuperMajorityThreshold ==
  (ret.op = "conductVote" /\ ret.proposal.voteRequirement = "super_majority")
    => /\ ret.value.passed <=> (3 * ret.value.votesFor >= 2 * Len(ret.value.votes))
       /\ Len(ret.value.votes) = 3 => (ret.value.passed <=> ret.value.votesFor \in {2, 3})

\* a super majority has failed with one yes among two votes cast (one vote
\* short of ceil(4/3) = 2)
C11_Witness ==
  /\ ret.op = "conductVote"
  /\ ret.proposal.voteRequirement = "super_majority"
  /\ Len(ret.value.votes) = 2
  /\ ret.value.votesFor = 1
  /\ ~ret.value.passed

\* C12: conductVote with SimpleMajority passes exactly when the yes votes are
\* strictly more than half of the votes cast; a tie fails.
C12_SimpleMajorityStrict ==
  (ret.op = "conductVote" /\ ret.proposal.voteRequirement = "simple_majority")
    => /\ ret.value.passed <=> (2 * ret.value.votesFor > Len(ret.value.votes))
       /\ ret.value.votesFor = ret.value.votesAgainst => ~ret.value.passed

\* a simple majority has failed on a tie of one yes against one no
C12_Witness ==
  /\ ret.op = "conductVote"
  /\ ret.proposal.voteRequirement = "simple_majority"
  /\ ret.value.votesFor = 1 /\ ret.value.votesAgainst = 1
  /\ ~ret.value.passed

\* C13: conductVote with Referendum passes exactly when the population of the
\* districts of the representatives who voted yes is strictly more than half
\* of the population of the districts of all the representatives who voted;
\* the head count does not decide.
C13_ReferendumByPopulation ==
  (ret.op = "conductVote" /\ ret.proposal.voteRequirement = "referendum")
    => LET voted == {i \in 1..Len(representatives) :
                       \E k \in 1..Len(ret.value.votes) :
                          ret.value.votes[k].representativeId = representatives[i].id}
           yes == {i \in voted :
                     \E k \in 1..Len(ret.value.votes) :
                        /\ ret.value.votes[k].representativeId = representatives[i].id
                        /\ ret.value.votes[k].votedYes}
           pop(i) == (CHOOSE d \in Range(districts) : d.id = representatives[i].districtId).population
           popOf[S \in SUBSET (1..Len(representatives))] ==
             IF S = {} THEN 0
             ELSE LET i == CHOOSE x \in S : TRUE IN pop(i) + popOf[S \ {i}]
       IN ret.value.passed <=> (2 * popOf[yes] > popOf[voted])

\* a referendum has passed on the yes of one representative out of three,
\* whose district holds more than half of the population
C13_Witness ==
  /\ ret.op = "conductVote"
  /\ ret.proposal.voteRequirement = "referendum"
  /\ Len(ret.value.votes) = 3
  /\ ret.value.votesFor = 1 /\ ret.value.votesAgainst = 2
  /\ ret.value.votes[1].votedYes
  /\ 2 * districts[1].population > districts[1].population + districts[2].population + districts[3].population
  /\ ret.value.passed

\* a referendum has failed on the yes of two representatives out of three,
\* whose districts hold less than half of the population
C13_WitnessMajorityFails ==
  /\ ret.op = "conductVote"
  /\ ret.proposal.voteRequirement = "referendum"
  /\ Len(ret.value.votes) = 3
  /\ ret.value.votesFor = 2
  /\ ~ret.value.votes[1].votedYes
  /\ ~ret.value.passed

\* C14: every VoteResult of conductVote, and of proposePolicy in Political
\* mode, records one vote for each representative whose district exists, in
\* the order of the council, and none for the others; votesFor is the number
\* of yes votes and votesFor + votesAgainst the number of votes.
C14_VoteTally ==
  LET seated == SelectSeq(representatives,
                          LAMBDA r : \E d \in Range(districts) : d.id = r.districtId)
      Tallied(result) ==
        /\ Len(result.votes) = Len(seated)
        /\ \A k \in 1..Len(seated) : result.votes[k].representativeId = seated[k].id
        /\ result.votesFor = Cardinality({k \in 1..Len(result.votes) : result.votes[k].votedYes})
        /\ result.votesFor + result.votesAgainst = Len(result.votes)
  IN /\ ret.op = "conductVote" => Tallied(ret.value)
     /\ (ret.op = "proposePolicy" /\ mode = "political" /\ ret.value # Absent)
          => Tallied(ret.value[1])

\* proposePolicy in Political mode has returned a tally of one vote for a
\* council of two seats, the second of which has no district
C14_Witness ==
  /\ ret.op = "proposePolicy"
  /\ mode = "political"
  /\ ret.value # Absent
  /\ Len(representatives) = 2
  /\ Len(ret.value[1].votes) = 1
  /\ ret.value[1].votesFor + ret.value[1].votesAgainst = 1

\* ------------------------------------------------------------------------
\* Properties of the transit, migration and engine steps of a tick
\* ------------------------------------------------------------------------
\* C15: a transit line under construction has ridership 0: calculateRidership
\* returns 0 for it whatever the density of its districts and whatever its
\* previous ridership, and after every tick of a running game every line
\* still under construction has ridership 0.
C15_UnderConstructionNoRidership ==
  [][(~gameOver /\ ret'.op = "tick" /\ Tick) =>
       /\ \A i \in 1..Len(transitLines') :
            transitLines'[i].constructionTurnsRemaining > 0 => transitLines'[i].ridership = 0
       /\ \A i \in 1..Len(transitLines) : \A r \in {0, 80, 240} :
            /\ transitLines[i].constructionTurnsRemaining > 0
                 => calculateRidership([transitLines[i] EXCEPT !.ridership = r], districts) = 0
            /\ transitLines'[i].constructionTurnsRemaining > 0
                 => calculateRidership([transitLines'[i] EXCEPT !.ridership = r], districts') = 0]_vars

\* after the first tick the second line has one turn of construction left and
\* no riders, while its districts are populated and the operational line
\* carries riders
C15_Witness ==
  /\ turn = 1 /\ ret.op = "tick"
  /\ transitLines[2].constructionTurnsRemaining = 1
  /\ transitLines[2].ridership = 0
  /\ \A k \in 1..Len(transitLines[2].districts) :
       GetDistrict(districts, transitLines[2].districts[k]).currentDensity > 0
  /\ transitLines[1].constructionTurnsRemaining = 0
  /\ transitLines[1].ridership > 0

\* C16: every population move of a tick has a positive count, goes from a
\* district to a district of its adjacency list, and goes to a district whose
\* attractiveness (0.4 happiness + 0.3 (1 - rentBurden) + 0.3 jobAccessScore,
\* which nothing changes between the migration and the end of the tick)
\* exceeds that of the source by more than 0.05; no tick moves people in both
\* directions between two districts.
C16_MovesTowardAttractive ==
  [][(~gameOver /\ ret'.op = "tick" /\ Tick) =>
       LET moves == ret'.populationMoves
           \* the score in millionths
           score(id) == LET d == CHOOSE x \in Range(districts') : x.id = id
                        IN d.metrics.happiness * 400 + (1000 - d.metrics.rentBurden) * 300
                             + d.metrics.jobAccessScore * 300
       IN /\ \A k \in 1..Len(moves) :
               /\ moves[k].count > 0
               /\ \E i \in 1..Len(districts) :
                     /\ districts[i].id = moves[k].from
                     /\ moves[k].to \in Range(districts[i].adjacentDistricts)
               /\ score(moves[k].to) - score(moves[k].from) > 50000
          /\ \A k, l \in 1..Len(moves) :
               ~(moves[k].from = moves[l].to /\ moves[k].to = moves[l].from)]_vars

\* a tick has moved people from two districts into the first one, which is
\* adjacent to both and the most attractive of the three
C16_Witness ==
  /\ ret.op = "tick" /\ ~gameOver
  /\ Len(ret.populationMoves) = 2
  /\ \A k \in 1..2 :
       /\ ret.populationMoves[k].to = 1
       /\ ret.populationMoves[k].count > 0
       /\ Attractiveness(districts[1])
            > Attractiveness(GetDistrict(districts, ret.populationMoves[k].from)) + 50
  /\ ret.populationMoves[1].from # ret.populationMoves[2].from

\* C17: the population that one run of the migration (one per tick) moves
\* into a district, summed over all the districts that move people into it,
\* never exceeds its remaining capacity (maxDensity x area minus its
\* population before the moves), so migration never takes a district above
\* its capacity.
C17_InflowWithinCapacity ==
  [][SimulateMigration =>
       \A j \in 1..Len(districts) :
          LET moves == ret'.moves
              inflow == SumSeq([k \in 1..Len(moves) |->
                                  IF moves[k].to = districts[j].id THEN moves[k].count ELSE 0])
              capacity == districts[j].maxDensity * districts[j].area
          IN inflow > 0 => /\ inflow <= capacity - districts[j].population
                           /\ districts'[j].population <= capacity]_vars

\* C18: the turn counter starts at 0, increases by exactly 1 on every tick of
\* a running game and is changed by no other call; the TurnResult of such a
\* tick carries the new turn number and one district change per district, in
\* the order of the districts.
C18_TurnCounter ==
  /\ turn = 0
  /\ [][/\ (~gameOver /\ ret'.op = "tick" /\ Tick) =>
             /\ turn' = turn + 1
             /\ ret'.turn = turn'
             /\ Len(ret'.districtChanges) = Len(districts')
             /\ \A i \in 1..Len(districts') :
                  /\ ret'.districtChanges[i].districtId = districts'[i].id
                  /\ ret'.districtChanges[i].metricsBefore = districts[i].metrics
                  /\ ret'.districtChanges[i].metricsAfter = districts'[i].metrics
        /\ turn' # turn => (~gameOver /\ Tick)
        /\ \A proposal \in Proposals :
             (ret'.op = "proposePolicy" /\ ProposePolicy(proposal)) => turn' = turn
        /\ \A controls \in Controls :
             (ret'.op = "applySandboxControls" /\ ApplySandboxControls(controls))
               => turn' = turn]_vars

\* the second tick has returned turn 2 and three district changes, after a
\* policy was proposed and the sandbox controls were applied
C18_Witness ==
  /\ turn = 2 /\ ret.op = "tick" /\ ret.turn = 2
  /\ Len(ret.districtChanges) = 3
  /\ policyHistory # <<>>
  /\ districts[1].parkingMinimum # 1

\* C19: in Political mode proposePolicy on a running game conducts a vote and
\* stores the returned VoteResult as the last vote result; when the vote fails
\* the budget, the active effects and the policy history are unchanged, and
\* when it passes the policy is applied exactly once: one entry more in the
\* policy history, one active effect more per effect of the policy, the cost
\* deducted once.
C19_PoliticalAppliesIffPassed ==
  [][\A proposal \in VoteProposals :
       (~gameOver /\ mode = "political" /\ ret'.op = "proposePolicy"
          /\ ProposePolicy(proposal)) =>
          /\ ret'.value # Absent
          /\ lastVoteResult' = ret'.value
          /\ ret'.value[1].policyId = proposal.id
          /\ ret'.value[1].required = proposal.voteRequirement
          /\ ~ret'.value[1].passed =>
                /\ budget' = budget
                /\ activeEffects' = activeEffects
                /\ policyHistory' = policyHistory
          /\ ret'.value[1].passed =>
                /\ budget' = [budget EXCEPT !.balance = @ - proposal.cost]
                /\ Len(policyHistory') = Len(policyHistory) + 1
                /\ SubSeq(policyHistory', 1, Len(policyHistory)) = policyHistory
                /\ policyHistory'[Len(policyHistory')].policy = proposal
                /\ Len(activeEffects') = Len(activeEffects) + Len(proposal.effects)
                /\ SubSeq(activeEffects', 1, Len(activeEffects)) = activeEffects
                /\ \A i \in 1..Len(proposal.effects) :
                     /\ activeEffects'[Len(activeEffects) + i].policyId = proposal.id
                     /\ activeEffects'[Len(activeEffects) + i].effect = proposal.effects[i]]_vars

\* the council has refused a proposal by one vote against two: the result is
\* stored, and the budget, the active effects and the policy history are
\* those of the new game
C19_Witness ==
  /\ mode = "political" /\ ~gameOver
  /\ ret.op = "proposePolicy" /\ ret.value # Absent
  /\ ~ret.value[1].passed
  /\ ret.value[1].votesFor = 1 /\ ret.value[1].votesAgainst = 2
  /\ lastVoteResult = ret.value
  /\ policyHistory = <<>> /\ activeEffects = <<>>
  /\ budget.balance = 800
  /\ \A i \in 1..Len(representatives) : Len(representatives[i].voteHistory) = 1

\* C20: in Sandbox mode proposePolicy on a running game applies the policy
\* without a vote: it returns passed = true with an empty vote list, whatever
\* the vote requirement of the proposal and whatever the council would have
\* voted, and it adds nothing to the vote history of any representative.
C20_SandboxAppliesWithoutVote ==
  [][\A proposal \in Proposals :
       (~gameOver /\ mode = "sandbox" /\ ret'.op = "proposePolicy"
          /\ ProposePolicy(proposal)) =>
          /\ ret'.value # Absent
          /\ ret'.value[1].passed
          /\ ret'.value[1].votes = <<>>
          /\ ret'.value[1].votesFor = 0 /\ ret'.value[1].votesAgainst = 0
          /\ representatives' = representatives
          /\ lastVoteResult' = lastVoteResult
          /\ Len(policyHistory') = Len(policyHistory) + 1
          /\ policyHistory'[Len(policyHistory')].policy = proposal
          /\ Len(activeEffects') = Len(activeEffects) + Len(proposal.effects)
          /\ budget'.balance = budget.balance - proposal.cost]_vars

\* the sandbox has applied a policy that needs a super majority, which the
\* council of the city would have refused
C20_Witness ==
  /\ mode = "sandbox" /\ ~gameOver
  /\ ret.op = "proposePolicy" /\ ret.value # Absent
  /\ ret.value[1].passed /\ ret.value[1].votes = <<>>
  /\ policyHistory # <<>>
  /\ policyHistory[Len(policyHistory)].policy.voteRequirement = "super_majority"
  /\ policyHistory[Len(policyHistory)].policy.id = ret.value[1].policyId
  /\ ~conductVote(policyHistory[Len(policyHistory)].policy, representatives, districts).passed
  /\ \A i \in 1..Len(representatives) : representatives[i].voteHistory = <<>>

\* ------------------------------------------------------------------------
\* Properties of policies, elections and the systems over several ticks
\* ------------------------------------------------------------------------
\* C21: applying a policy (a passed vote in Political mode, any proposal in
\* Sandbox mode) subtracts the cost of the proposal from the balance exactly
\* once, so a positive cost lowers the balance and a negative cost raises it;
\* it appends exactly one entry to the policy history, stamped with the
\* current turn, and schedules exactly one active effect per effect of the
\* proposal, whose activation countdown is the delay of the effect.
C21_ApplyPolicyOnce ==
  [][\A proposal \in Proposals :
       (~gameOver /\ ret'.op = "proposePolicy" /\ ProposePolicy(proposal)
          /\ (mode = "sandbox" \/ ret'.value[1].passed)) =>
          /\ budget' = [budget EXCEPT !.balance = @ - proposal.cost]
          /\ proposal.cost > 0 => budget'.balance < budget.balance
          /\ proposal.cost < 0 => budget'.balance > budget.balance
          /\ Len(policyHistory') = Len(policyHistory) + 1
          /\ SubSeq(policyHistory', 1, Len(policyHistory)) = policyHistory
          /\ policyHistory'[Len(policyHistory')].policy = proposal
          /\ policyHistory'[Len(policyHistory')].turnPassed = turn
          /\ turn' = turn
          /\ Len(activeEffects') = Len(activeEffects) + Len(proposal.effects)
          /\ SubSeq(activeEffects', 1, Len(activeEffects)) = activeEffects
          /\ \A i \in 1..Len(proposal.effects) :
               /\ activeEffects'[Len(activeEffects) + i].policyId = proposal.id
               /\ activeEffects'[Len(activeEffects) + i].effect = proposal.effects[i]
               /\ activeEffects'[Len(activeEffects) + i].turnsUntilActive
                     = proposal.effects[i].delay]_vars

\* in the second turn a policy with a negative cost has been applied after one
\* with a positive cost: the second entry of the history is stamped with turn
\* 2 and its effect is scheduled last, with the delay of the effect
C21_Witness ==
  /\ ~gameOver /\ turn = 2
  /\ ret.op = "proposePolicy" /\ ret.value # Absent /\ ret.value[1].passed
  /\ Len(policyHistory) = 2
  /\ policyHistory[1].policy.cost > 0
  /\ policyHistory[2].policy.cost < 0
  /\ policyHistory[2].turnPassed = 2
  /\ activeEffects # <<>>
  /\ activeEffects[Len(activeEffects)].policyId = policyHistory[2].policy.id
  /\ activeEffects[Len(activeEffects)].turnsUntilActive
       = policyHistory[2].policy.effects[1].delay

\* C22: elections run only on interval turns. In Political mode a tick of a
\* running game runs an election iff the new turn number is a positive
\* multiple of the election interval; on those ticks the TurnResult carries
\* an election result stamped with the turn number and the election log grows
\* by that entry; on every other tick, and on every tick in Sandbox mode, the
\* result carries no election, the log is unchanged and every seat keeps its
\* holder and its term number.
C22_ElectionsOnIntervalTurns ==
  [][(~gameOver /\ ret'.op = "tick" /\ Tick) =>
       IF mode = "political" /\ turn' > 0 /\ turn' % electionInterval = 0
       THEN /\ ret'.election # Absent
            /\ ret'.election[1].turn = turn'
            /\ electionLog' = Append(electionLog, ret'.election[1])
       ELSE /\ ret'.election = Absent
            /\ electionLog' = electionLog
            /\ Len(representatives') = Len(representatives)
            /\ \A i \in 1..Len(representatives) :
                 /\ representatives'[i].id = representatives[i].id
                 /\ representatives'[i].termNumber = representatives[i].termNumber]_vars

\* the fourth tick of a political game with interval 2 has run the second
\* election: the log holds the elections of turns 2 and 4 and no other
C22_Witness ==
  /\ mode = "political" /\ electionInterval = 2 /\ turn = 4
  /\ ret.op = "tick" /\ ret.election # Absent /\ ret.election[1].turn = 4
  /\ Len(electionLog) = 2
  /\ electionLog[1].turn = 2 /\ electionLog[2] = ret.election[1]

\* C23: applySandboxControls is only effective in Sandbox mode: in Political
\* mode a call with any controls leaves the whole engine state unchanged
\* (density caps, parking minimums, road capacities, tax rate, transit
\* subsidy and everything else).
C23_ControlsIgnoredInPoliticalMode ==
  [][\A controls \in Controls :
       (mode = "political" /\ ret'.op = "applySandboxControls"
          /\ ApplySandboxControls(controls)) =>
          UNCHANGED <<districts, roadNetwork, transitLines, budget, representatives,
                      scenarioGoals, electionInterval, turn, mode, metrics, activeEffects,
                      policyHistory, electionLog, lastVoteResult, gameOver,
                      gameOverReason>>]_vars

\* the controls were applied to a running political game after its first
\* tick: the density caps, the parking minimums, the road capacities, the tax
\* rate and the transit subsidy are those of the configuration
C23_Witness ==
  /\ mode = "political" /\ ~gameOver /\ turn = 1
  /\ ret.op = "applySandboxControls"
  /\ \A i \in 1..Len(districts) :
       /\ districts[i].maxDensity = CityDistricts[i].maxDensity
       /\ districts[i].parkingMinimum = 1
  /\ \A k \in DOMAIN roadNetwork.capacities : roadNetwork.capacities[k] = 150
  /\ budget.taxRate = 130 /\ budget.transitSubsidy = 400

\* C24: the property-value boost of a transit line is one-shot: it is added
\* to the property value of the districts the line connects exactly once over
\* the run, on the tick in which the construction countdown of that line
\* reaches zero, and never again (not on later ticks, not when another line
\* becomes operational); a line that makes no transition to zero during the
\* run boosts nothing.  So the property value of a district is its initial
\* value plus one boost per connecting line completed during the run.
C24_BoostOneShot ==
  \A i \in 1..Len(districts) :
     districts[i].metrics.propertyValue =
       CityDistricts[i].metrics.propertyValue
         + SumSeq([l \in 1..Len(transitLines) |->
                    IF /\ CityTransitLines[l].constructionTurnsRemaining > 0
                       /\ transitLines[l].constructionTurnsRemaining = 0
                       /\ districts[i].id \in Range(transitLines[l].districts)
                    THEN ((IF transitLines[l].type = "rail" THEN RAIL_PROPERTY_BOOST
                           ELSE BUS_PROPERTY_BOOST) * transitLines[l].propertyValueBoost)
                           \div 1000
                    ELSE 0])

\* C25: the construction countdown of every transit line is a non-negative
\* integer that decreases by exactly 1 on each tick of a running game while it
\* is positive, never increases and stays 0 once it is 0; no other call
\* changes it; the milestone event of a line is emitted in exactly one tick,
\* the one in which its countdown goes from 1 to 0.
C25_ConstructionCountdown ==
  /\ \A l \in 1..Len(transitLines) : transitLines[l].constructionTurnsRemaining \in Nat
  /\ [][/\ Len(transitLines') = Len(transitLines)
        /\ \A l \in 1..Len(transitLines) :
             /\ transitLines'[l].id = transitLines[l].id
             /\ transitLines'[l].constructionTurnsRemaining \in Nat
             /\ transitLines'[l].constructionTurnsRemaining
                  <= transitLines[l].constructionTurnsRemaining
             /\ transitLines[l].constructionTurnsRemaining = 0
                  => transitLines'[l].constructionTurnsRemaining = 0
             /\ transitLines'[l].constructionTurnsRemaining
                  # transitLines[l].constructionTurnsRemaining
                  => (~gameOver /\ ret'.op = "tick")
        /\ (~gameOver /\ ret'.op = "tick" /\ Tick) =>
             \A l \in 1..Len(transitLines) :
                /\ transitLines[l].constructionTurnsRemaining > 0
                     => transitLines'[l].constructionTurnsRemaining
                          = transitLines[l].constructionTurnsRemaining - 1
                /\ Cardinality({k \in 1..Len(ret'.events) :
                                  /\ ret'.events[k].type = "milestone"
                                  /\ ret'.events[k].message = "is now operational!"
                                  /\ ret'.events[k].subject = transitLines[l].id})
                     = IF /\ transitLines[l].constructionTurnsRemaining = 1
                          /\ transitLines'[l].constructionTurnsRemaining = 0
                       THEN 1 ELSE 0]_vars

\* the second tick has completed the second line, whose countdown was 2 in the
\* configuration: the result carries the milestone of that line and none for
\* the line that was operational from the start
C25_Witness ==
  /\ turn = 2 /\ ret.op = "tick"
  /\ CityTransitLines[2].constructionTurnsRemaining = 2
  /\ transitLines[2].constructionTurnsRemaining = 0
  /\ transitLines[1].constructionTurnsRemaining = 0
  /\ \E k \in 1..Len(ret.events) :
       /\ ret.events[k].type = "milestone"
       /\ ret.events[k].message = "is now operational!"
       /\ ret.events[k].subject = transitLines[2].id
  /\ \A k \in 1..Len(ret.events) :
       ret.events[k].message = "is now operational!"
         => ret.events[k].subject # transitLines[1].id

\* C26: the operating cost returned by the transit phase of a tick is
\* consumed by the economy phase of the same tick, as part of the expenses:
\* with the same population and tax rate, the tick of a city whose
\* operational lines have a positive cost leaves a lower balance than the
\* tick of the same city without its lines.
C26_TransitCostInBudget ==
  [][(/\ ~gameOver /\ ret'.op = "tick" /\ Tick
      /\ tickTransit(districts, transitLines, metrics).transitCost > 0) =>
       budget'.balance < tick([State EXCEPT !.transitLines = <<>>]).state.budget.balance]_vars

\* C27: in an election an incumbent is replaced only if the deterministic
\* draw for that representative is below their re-election risk and their
\* approval is below 0.5; a representative whose approval is at least 0.5 at
\* election time is retained, whatever the draw and whatever the risk.
C27_ReplacedOnlyIfUnpopular ==
  [][\A t \in 1..MaxElectionTurn :
       (ret'.op = "runElection" /\ ret'.result.turn = t /\ RunElection(t)) =>
          \A i \in 1..Len(representatives) :
             /\ (/\ HasDistrict(districts, representatives[i].districtId)
                 /\ representatives'[i] # [representatives[i] EXCEPT !.termNumber = @ + 1])
                  => /\ seededRandom(t * 1000 + CharCode0(representatives[i].id))
                          < representatives[i].reElectionRisk
                     /\ representatives[i].approvalRating < 500
             /\ \A k \in 1..Len(ret'.result.results) :
                  (/\ ret'.result.results[k].incumbentId = representatives[i].id
                   /\ ret'.result.results[k].outcome = "replaced")
                  => /\ seededRandom(t * 1000 + CharCode0(representatives[i].id))
                          < representatives[i].reElectionRisk
                     /\ representatives[i].approvalRating < 500
             /\ (/\ representatives[i].approvalRating >= 500
                 /\ HasDistrict(districts, representatives[i].districtId))
                  => representatives'[i] = [representatives[i] EXCEPT !.termNumber = @ + 1]]_vars

\* the first election of a council has retained a representative with
\* approval 0.5 and risk 0.8 although the draw was below the risk, and has
\* replaced another seat in the same election
C27_Witness ==
  /\ ret.op = "runElection" /\ Len(electionLog) = 1
  /\ representatives[1].id = <<"rep", 1>>
  /\ representatives[1].approvalRating = 500 /\ representatives[1].reElectionRisk = 800
  /\ representatives[1].termNumber = 2
  /\ seededRandom(ret.result.turn * 1000 + CharCode0(representatives[1].id)) < 800
  /\ ret.result.results[1].outcome = "retained"
  /\ \E k \in 1..Len(ret.result.results) : ret.result.results[k].outcome = "replaced"

\* C28: one representative per district, through every sequence of ticks,
\* votes and elections: the number of representatives never changes and the
\* seat at each position keeps its district; an election installs the new
\* representative at the position and with the district of the incumbent, and
\* its result has exactly one entry per representative whose district
\* exists, in order, marked Replaced with the id of the new representative
\* iff the seat changed holder and Retained otherwise; no other step changes
\* the holder of a seat.
C28_OneRepresentativePerDistrict ==
  [][/\ Len(representatives') = Len(representatives)
     /\ \A i \in 1..Len(representatives) :
          representatives'[i].districtId = representatives[i].districtId
     /\ electionLog' = electionLog =>
          \A i \in 1..Len(representatives) : representatives'[i].id = representatives[i].id
     /\ electionLog' # electionLog =>
          \E res \in {electionLog'[Len(electionLog')].results} :
          \E seats \in {SelectSeq([i \in 1..Len(representatives) |-> i],
                                  LAMBDA i : HasDistrict(districts',
                                                         representatives[i].districtId))} :
             /\ Len(electionLog') = Len(electionLog) + 1
             /\ Len(res) = Len(seats)
             /\ \A i \in 1..Len(representatives) :
                  ~HasDistrict(districts', representatives[i].districtId)
                    => representatives'[i] = representatives[i]
             /\ \A k \in 1..Len(seats) :
                  /\ res[k].districtId = representatives[seats[k]].districtId
                  /\ res[k].incumbentId = representatives[seats[k]].id
                  /\ res[k].outcome \in {"replaced", "retained"}
                  /\ res[k].outcome = "replaced"
                       <=> representatives'[seats[k]].id # representatives[seats[k]].id
                  /\ res[k].outcome = "replaced"
                       => res[k].newRepresentativeId = representatives'[seats[k]].id
                  /\ res[k].outcome = "retained"
                       => res[k].newRepresentativeId = Absent]_vars

\* the election of turn 2 has replaced the representative of the third
\* district and retained the two others, after a vote of the council: the new
\* representative sits at the third position, for the third district
C28_Witness ==
  /\ ret.op = "tick" /\ ret.election # Absent /\ turn = 2
  /\ Len(representatives) = 3
  /\ \A i \in 1..3 : representatives[i].districtId = CityRepresentatives[i].districtId
  /\ representatives[3].id = <<"rep", 3, 2>>
  /\ representatives[3].voteHistory = <<>>
  /\ representatives[1].id = CityRepresentatives[1].id
  /\ representatives[1].voteHistory # <<>>
  /\ Len(ret.election[1].results) = 3
  /\ ret.election[1].results[3].outcome = "replaced"
  /\ ret.election[1].results[3].newRepresentativeId = <<"rep", 3, 2>>
  /\ ret.election[1].results[1].outcome = "retained"

\* C29: road load is persistent and damped once per tick: a tick never resets
\* the load of a segment to zero, loads never become negative, and for every
\* road segment the load after the tick is one damping step from the load
\* before it, new = old x (1 - 0.2) + target x 0.2, applied once per segment
\* whatever the number of districts that list the segment in their adjacency
\* lists.
C29_LoadDampedOncePerTick ==
  [][(~gameOver /\ ret'.op = "tick" /\ Tick) =>
       \E ds \in {tickZoning(districts, metrics, DEFAULT_BASE_RENT,
                              DEFAULT_MEDIAN_INCOME).districts} :
          \A key \in DOMAIN roadNetwork.capacities :
             /\ roadNetwork'.loads[key] >= 0
             /\ roadNetwork.loads[key] > 0 => roadNetwork'.loads[key] > 0
             /\ roadNetwork'.loads[key] =
                  UpdateOneRoadLoad(roadNetwork, ds, transitLines,
                                    <<DistrictIndex(ds, key[1]), key[2]>>).loads[key]]_vars

\* C30: district happiness is damped, not snapped: after a tick the happiness
\* of a district is old x (1 - a) + target x a with a about 0.12, where target
\* is the weighted sum of the six component scores, so when old and target
\* differ the new happiness lies strictly between them and is not the target.
C30_HappinessDamped ==
  [][(~gameOver /\ ret'.op = "tick" /\ Tick) =>
       \E z \in {tickZoning(districts, metrics, DEFAULT_BASE_RENT, DEFAULT_MEDIAN_INCOME)} :
       \E tr \in {tickTraffic(z.districts, roadNetwork, transitLines)} :
       \E tt \in {tickTransit(tr.districts, transitLines, z.metrics)} :
       \E e \in {applyActiveEffects(activeEffects, tt.districts, tt.metrics)} :
          \A i \in 1..Len(districts) :
             \E old \in {districts[i].metrics.happiness} :
             \E target \in {calculateHappiness(e.districts[i])} :
                old # target =>
                  /\ districts'[i].metrics.happiness # target
                  /\ districts'[i].metrics.happiness > Min(old, target)
                  /\ districts'[i].metrics.happiness < Max(old, target)]_vars

\* ------------------------------------------------------------------------
\* Properties of the phases of a tick, of lookups and of whole runs
\* ------------------------------------------------------------------------
\* C31: the phases of a tick run in the order Zoning, Traffic, Transit,
\* Economy, city congestion, approval update, elections, termination check,
\* and a later phase reads what an earlier one wrote in the same tick: the
\* districts after the tick are those the Economy phase computes from the
\* output of Transit, computed from the output of Traffic, computed from the
\* output of Zoning; the approval update uses the happiness written by the
\* Economy phase; an election decides on the approval and risk written by the
\* approval update; the termination check sees the balance and the metrics
\* written earlier in the tick.
C31_PhaseOrder ==
  [][(~gameOver /\ ret'.op = "tick" /\ Tick) =>
       \E z \in {tickZoning(districts, metrics, DEFAULT_BASE_RENT, DEFAULT_MEDIAN_INCOME)} :
       \E tr \in {tickTraffic(z.districts, roadNetwork, transitLines)} :
       \E tt \in {tickTransit(tr.districts, transitLines, z.metrics)} :
       \E ec \in {tickEconomy(tt.districts, tt.metrics, budget, activeEffects)} :
       \E reps6 \in {updateApproval(representatives, districts')} :
          /\ districts' = ec.districts
          /\ roadNetwork' = tr.roadNetwork
          /\ transitLines' = tt.transitLines
          /\ budget' = ec.budget
          /\ metrics' = [ec.metrics EXCEPT
                           !.congestionIndex = calculateCityCongestion(roadNetwork')]
          /\ ret'.election = Absent => representatives' = reps6
          /\ ret'.election # Absent =>
               \A i \in 1..Len(representatives) :
                  /\ ret'.election[1].results[i].approvalAtElection = reps6[i].approvalRating
                  /\ ret'.election[1].results[i].outcome = "replaced"
                       <=> /\ seededRandom(turn' * 1000 + CharCode0(reps6[i].id))
                                < reps6[i].reElectionRisk
                           /\ reps6[i].approvalRating < 500
                  /\ ret'.election[1].results[i].outcome = "retained"
                       => representatives'[i] = [reps6[i] EXCEPT !.termNumber = @ + 1]
          /\ gameOver' <=>
               \/ budget'.balance < BankruptcyThreshold
               \/ /\ scenarioGoals # <<>>
                  /\ \A g \in 1..Len(scenarioGoals) :
                       checkGoals(scenarioGoals, metrics')[g].met]_vars

\* the election of turn 2 has replaced the third representative on the
\* approval written in the same tick, which differs from the approval the
\* happiness of the previous turn would have given
C31_Witness ==
  /\ turn = 2 /\ ret.op = "tick" /\ ret.election # Absent
  /\ ret.election[1].results[3].outcome = "replaced"
  /\ ret.election[1].results[3].approvalAtElection < 500
  /\ ret.election[1].results[1].outcome = "retained"
  /\ representatives[1].approvalRating = ret.election[1].results[1].approvalAtElection
  /\ ret.districtChanges[1].metricsAfter.happiness
       # ret.districtChanges[1].metricsBefore.happiness

\* C32: after every tick of a running game the congestionIndex of the city
\* metrics is the unweighted mean, over all road segments, of
\* min(load / capacity, 1) on the road loads of that tick, and 0 when there is
\* no segment; the result of the tick reports the same value; the value the
\* Economy phase or a policy effect wrote earlier in the tick does not
\* survive.
C32_CityCongestionIsSegmentMean ==
  [][(~gameOver /\ ret'.op = "tick" /\ Tick) =>
       \E n \in {Cardinality(DOMAIN roadNetwork'.capacities)} :
       \E total \in
            {SumSeq([i \in 1..Len(districts) |->
               SumSeq([j \in 1..Len(districts) |->
                  IF <<districts[i].id, districts[j].id>> \in DOMAIN roadNetwork'.capacities
                  THEN Min((roadNetwork'.loads[<<districts[i].id, districts[j].id>>] * 1000)
                             \div roadNetwork'.capacities[<<districts[i].id, districts[j].id>>],
                           1000)
                  ELSE 0])])} :
          /\ metrics'.congestionIndex = IF n > 0 THEN total \div n ELSE 0
          /\ ret'.metricsAfter.congestionIndex = metrics'.congestionIndex]_vars

\* the sandbox has cut the road capacities, one segment is loaded beyond
\* its capacity and counts for 1, and the index after the tick is the mean of
\* the two segments, not the population-weighted district congestion
C32_Witness ==
  /\ ret.op = "tick" /\ turn = 1
  /\ DOMAIN roadNetwork.capacities = {<<1, 2>>, <<1, 3>>}
  /\ roadNetwork.loads[<<1, 3>>] > roadNetwork.capacities[<<1, 3>>]
  /\ roadNetwork.loads[<<1, 2>>] < roadNetwork.capacities[<<1, 2>>]
  /\ metrics.congestionIndex
       = (1000 + (roadNetwork.loads[<<1, 2>>] * 1000) \div roadNetwork.capacities[<<1, 2>>])
           \div 2
  /\ metrics.congestionIndex
       # SumSeq([i \in 1..Len(districts) |->
                  districts[i].metrics.trafficCongestion * districts[i].population])
           \div metrics.totalPopulation

\* C33: a lookup of an entity that does not exist is a silent no-op that
\* never aborts the tick.  An active effect that targets a district id not in
\* the city, or names a metric its target does not have, changes no metric:
\* the tick gives the districts, metrics and budget it gives without these
\* effects, while their delay and expiry countdowns advance and they expire
\* after their duration.  A representative whose district does not exist
\* casts no vote, gets no approval update and takes no part in elections.
C33_MissingLookupIsNoOp ==
  [][/\ (~gameOver /\ ret'.op = "tick" /\ Tick) =>
          \E live \in {SelectSeq(activeEffects, LAMBDA ae : ae.policyId \in {"safety", "patrols"})} :
          \E r \in {tick([State EXCEPT !.activeEffects = live])} :
             /\ turn' = turn + 1
             /\ districts' = r.state.districts
             /\ metrics' = r.state.metrics
             /\ budget' = r.state.budget
             /\ activeEffects' =
                  SelectSeq([i \in 1..Len(activeEffects) |->
                               IF activeEffects[i].turnsUntilActive > 0
                               THEN [activeEffects[i] EXCEPT !.turnsUntilActive = @ - 1]
                               ELSE [activeEffects[i] EXCEPT
                                       !.turnsRemaining = IF @ > 0 THEN @ - 1 ELSE @,
                                       !.applied = @ + 1]],
                            LAMBDA ae : ae.turnsRemaining # 0)
             /\ \A i \in 1..Len(representatives) :
                  ~HasDistrict(districts, representatives[i].districtId) =>
                     /\ representatives'[i] = representatives[i]
                     /\ ret'.election # Absent =>
                          \A k \in 1..Len(ret'.election[1].results) :
                             ret'.election[1].results[k].incumbentId # representatives[i].id
     /\ \A proposal \in LookupProposals :
          (~gameOver /\ ret'.op = "proposePolicy" /\ ProposePolicy(proposal)) =>
             \A i \in 1..Len(representatives) :
                ~HasDistrict(districts, representatives[i].districtId) =>
                   /\ representatives'[i] = representatives[i]
                   /\ \A k \in 1..Len(ret'.value[1].votes) :
                        ret'.value[1].votes[k].representativeId # representatives[i].id]_vars

\* the election of turn 2 has run after both policies with missing targets
\* were adopted: the effect on the unknown district has expired after its two
\* turns, the permanent effect on the unknown metric is still listed, the
\* fourth representative has kept the approval, the risk and the term that
\* would have unseated them, and has no entry in the election result
C33_Witness ==
  /\ ret.op = "tick" /\ turn = 2 /\ ~gameOver /\ ret.election # Absent
  /\ Len(policyHistory) = 2
  /\ \A k \in 1..2 : policyHistory[k].policy.id \in {"lost_district", "lost_metric"}
  /\ \A k \in 1..2 : policyHistory[k].turnPassed = 0
  /\ \A k \in 1..Len(activeEffects) :
       activeEffects[k].effect.target # DistrictTarget(9)
  /\ \E k \in 1..Len(activeEffects) :
       /\ activeEffects[k].effect.target = DistrictsTarget(<<2, 9>>)
       /\ activeEffects[k].applied = 1
  /\ Len(ret.election[1].results) = 3
  /\ representatives[4] = LookupRepresentatives[4]
  /\ \A i \in 1..2 : Len(representatives[i].voteHistory) = 2

\* C34: after every approval update, hence after every tick of a running
\* game, each representative with an existing district has an approval in
\* [0, 1] and a re-election risk that is a step function of that approval:
\* 0.8 below the high-risk threshold 0.35, 0.5 from the threshold up to 0.5
\* excluded, 0.2 from 0.5 on; so an approval below 0.5 never goes with the
\* low risk.
C34_RiskIsStepOfApproval ==
  [][(~gameOver /\ ret'.op = "tick" /\ Tick) =>
       \A i \in 1..Len(representatives') :
          HasDistrict(districts', representatives'[i].districtId) =>
             /\ representatives'[i].approvalRating \in 0..1000
             /\ representatives'[i].reElectionRisk =
                  IF representatives'[i].approvalRating < 350 THEN 800
                  ELSE IF representatives'[i].approvalRating < 500 THEN 500 ELSE 200
             /\ representatives'[i].approvalRating < 500
                  => representatives'[i].reElectionRisk # 200]_vars

\* after the first tick the third representative is in the medium band; the
\* configuration gave them approval 0.4, and gave the first representative
\* the risk 0.25, which is no value of the step function
C34_Witness ==
  /\ ret.op = "tick" /\ turn = 1
  /\ representatives[3].approvalRating \in 350..399
  /\ representatives[3].reElectionRisk = 500
  /\ representatives[1].approvalRating > 550
  /\ representatives[1].reElectionRisk = 200
  /\ CityRepresentatives[1].reElectionRisk = 250

\* two ticks later the approval of a representative has fallen below the
\* high-risk threshold and the risk is the high value
C34_WitnessHighRisk ==
  /\ ret.op = "tick" /\ turn = 3
  /\ \E i \in 1..Len(representatives) :
       /\ representatives[i].approvalRating < 350
       /\ representatives[i].reElectionRisk = 800

\* C35: an active effect with adjacent scope applies half of its delta to the
\* named metric of every district in the adjacency list of its source
\* district, on every tick it is active, and leaves the metrics of the source
\* unchanged (unless the source lists itself); an effect with district or
\* districts scope applies its full delta to exactly the named districts.
\* Stated on the crime rate, which nothing else writes: after a tick the crime
\* rate of every district is its old value plus, for every effect active in
\* that tick, the share of the district under the scope of the effect.
C35_EffectScopes ==
  [][(~gameOver /\ ret'.op = "tick" /\ Tick) =>
       LET Occurrences(ids, id) == Cardinality({k \in 1..Len(ids) : ids[k] = id})
           Share(ae, id) ==
             IF ae.turnsUntilActive > 0 \/ ae.effect.metric # "crimeRate" THEN 0
             ELSE CASE ae.effect.target.type = "district" ->
                         IF ae.effect.target.districtId = id THEN ae.effect.delta ELSE 0
                    [] ae.effect.target.type = "districts" ->
                         ae.effect.delta * Occurrences(ae.effect.target.districtIds, id)
                    [] ae.effect.target.type = "adjacent" ->
                         IF HasDistrict(districts, ae.effect.target.districtId)
                         THEN (ae.effect.delta \div 2)
                                * Occurrences(GetDistrict(districts, ae.effect.target.districtId)
                                                .adjacentDistricts, id)
                         ELSE 0
                    [] OTHER -> 0
       IN \A i \in 1..Len(districts) :
             districts'[i].metrics.crimeRate =
               districts[i].metrics.crimeRate
                 + SumSeq([k \in 1..Len(activeEffects) |->
                             Share(activeEffects[k], districts[i].id)])]_vars

\* after the second tick of the patrols policy: the neighbours 2 and 3 of
\* district 1 have received half of -0.03 twice, district 1 nothing from the
\* adjacent scope, and districts 1 and 3 the full -0.02 of the districts
\* scope once
C35_Witness ==
  /\ ret.op = "tick" /\ turn = 2
  /\ Len(policyHistory) = 1 /\ policyHistory[1].policy.id = "patrols"
  /\ policyHistory[1].turnPassed = 0
  /\ districts[1].metrics.crimeRate = 200 - 20
  /\ districts[2].metrics.crimeRate = 200 - 15 - 15
  /\ districts[3].metrics.crimeRate = 200 - 15 - 15 - 20

\* C36: migration conserves population: simulateMigration leaves the sum of
\* the district populations unchanged, the population of each district
\* changes by the counts of the returned moves into it minus the counts of the
\* returned moves out of it, and every count is computed from the populations
\* and the attractiveness scores as they were before any move was applied.
C36_MigrationConserves ==
  [][(ret'.op = "simulateMigration" /\ SimulateMigration) =>
       LET moves == ret'.moves
           In(id) == SumSeq([k \in 1..Len(moves) |->
                               IF moves[k].to = id THEN moves[k].count ELSE 0])
           Out(id) == SumSeq([k \in 1..Len(moves) |->
                                IF moves[k].from = id THEN moves[k].count ELSE 0])
       IN /\ SumSeq([i \in 1..Len(districts) |-> districts'[i].population])
               = SumSeq([i \in 1..Len(districts) |-> districts[i].population])
          /\ \A i \in 1..Len(districts) :
               districts'[i].population
                 = districts[i].population + In(districts[i].id) - Out(districts[i].id)
          /\ \A k \in 1..Len(moves) :
               /\ HasDistrict(districts, moves[k].from) /\ HasDistrict(districts, moves[k].to)
               /\ \E from \in {GetDistrict(districts, moves[k].from)} :
                  \E to \in {GetDistrict(districts, moves[k].to)} :
                  \E diff \in {Attractiveness(to) - Attractiveness(from)} :
                     /\ diff > 50
                     /\ moves[k].count > 0
                     /\ moves[k].count =
                          Min((from.population * 20 * diff) \div 1000000,
                              (to.maxDensity * to.area - to.population) \div 10)]_vars

\* eleven suburbs have each sent one person to the centre, whose room was 10:
\* the centre has gained 11 and every suburb has lost 1
C36_Witness ==
  /\ ret.op = "simulateMigration"
  /\ Len(districts) = 12 /\ Len(ret.moves) = 11
  /\ \A k \in 1..11 : ret.moves[k] = [from |-> k + 1, to |-> 1, count |-> 1]
  /\ districts[1].population = 16001
  /\ \A i \in 2..12 : districts[i].population = 799

\* C37: a proposal that receives no yes vote never passes under
\* SimpleMajority, SuperMajority or Referendum, also when no representative
\* is eligible and no vote is cast; only ExecutiveOrder passes without a yes.
C37_NoYesNeverPasses ==
  (/\ ret.op = "conductVote"
   /\ ret.proposal.voteRequirement \in {"simple_majority", "super_majority", "referendum"}
   /\ ret.value.votesFor = 0)
    => ~ret.value.passed

\* C39: in every reachable state each active effect carries the id of a
\* policy of the policy history, its turnsUntilActive is at least 0 and its
\* turnsRemaining is -1 or in 1..duration (never 0, so no expired entry is
\* left after a tick); a tick keeps the surviving entries in order without
\* raising either countdown, and the other calls leave the entries they
\* found as they were.
C39_ActiveEffectsWellFormed ==
  /\ activeEffects = <<>>
  /\ [][/\ \A i \in 1..Len(activeEffects') :
            /\ \E n \in 1..Len(policyHistory') :
                  policyHistory'[n].policy.id = activeEffects'[i].policyId
            /\ activeEffects'[i].turnsUntilActive >= 0
            /\ \/ activeEffects'[i].turnsRemaining = -1
               \/ activeEffects'[i].turnsRemaining \in 1..activeEffects'[i].effect.duration
        /\ turn' = turn + 1 =>
             \E kept \in {SelectSeq(activeEffects,
                                     LAMBDA ae : ~(ae.turnsUntilActive = 0 /\ ae.turnsRemaining = 1))} :
                /\ Len(activeEffects') = Len(kept)
                /\ \A i \in 1..Len(kept) :
                     /\ activeEffects'[i].policyId = kept[i].policyId
                     /\ activeEffects'[i].effect = kept[i].effect
                     /\ activeEffects'[i].turnsUntilActive <= kept[i].turnsUntilActive
                     /\ activeEffects'[i].turnsRemaining <= kept[i].turnsRemaining
                     /\ kept[i].turnsRemaining = -1 => activeEffects'[i].turnsRemaining = -1
        /\ turn' = turn =>
             /\ Len(activeEffects') >= Len(activeEffects)
             /\ SubSeq(activeEffects', 1, Len(activeEffects)) = activeEffects]_vars

\* after a tick the rail line's happiness effect (duration 1) has expired and
\* been swept, its delayed permanent effect is one tick from activation, and
\* an entry of the road expansion is still counting down
C39_Witness ==
  /\ ret.op = "tick"
  /\ \E n \in 1..Len(policyHistory) :
       /\ policyHistory[n].policy.id = "rail_line"
       /\ turn = policyHistory[n].turnPassed + 1
  /\ \E i \in 1..Len(activeEffects) :
       /\ activeEffects[i].policyId = "rail_line"
       /\ activeEffects[i].turnsRemaining = -1
       /\ activeEffects[i].turnsUntilActive = 1
  /\ \A i \in 1..Len(activeEffects) :
       activeEffects[i].policyId = "rail_line" => activeEffects[i].effect.duration = 0
  /\ \E i \in 1..Len(activeEffects) :
       /\ activeEffects[i].policyId = "road_expansion"
       /\ activeEffects[i].turnsRemaining \in 1..2

\* C40: turn results chain without gaps.  A tick of a running game reports
\* as "before" the city metrics and the district metrics of the state it
\* starts from and as "after" those of the state it leaves, and every other
\* call (proposePolicy, applySandboxControls, a tick of a finished game)
\* leaves the city metrics and the metrics of every district unchanged; so
\* the "before" of a tick is the "after" of the tick that preceded it.
C40_TurnResultsChain ==
  [][/\ turn' = turn + 1 =>
          /\ ret'.op = "tick"
          /\ ret'.metricsBefor = metrics
          /\ ret'.metricsAfter = metrics'
          /\ Len(ret'.districtChanges) = Len(districts)
          /\ Len(districts') = Len(districts)
          /\ \A i \in 1..Len(districts) :
               /\ ret'.districtChanges[i].districtId = districts[i].id
               /\ ret'.districtChanges[i].metricsBefore = districts[i].metrics
               /\ ret'.districtChanges[i].metricsAfter = districts'[i].metrics
     /\ turn' # turn + 1 =>
          /\ turn' = turn
          /\ metrics' = metrics
          /\ Len(districts') = Len(districts)
          /\ \A i \in 1..Len(districts) :
               /\ districts'[i].id = districts[i].id
               /\ districts'[i].metrics = districts[i].metrics]_vars

\* the second tick has moved the city metrics, after a policy passed at turn
\* 1 and the sandbox controls were applied
C40_Witness ==
  /\ ret.op = "tick" /\ ret.turn = 2 /\ turn = 2
  /\ \E n \in 1..Len(policyHistory) : policyHistory[n].turnPassed = 1
  /\ districts[1].parkingMinimum = 0
  /\ ret.metricsBefor # ret.metricsAfter
  /\ ret.metricsAfter = metrics
  /\ ret.districtChanges[1].metricsBefore # ret.districtChanges[1].metricsAfter

====
